---- MODULE Spec2Model ----
(***************************************************************************)
(* Drift detection engine of savannah-tech-drift-detection.               *)
(*                                                                         *)
(* Part I   the value model and the deep comparison DriftAnalyzer          *)
(*          delegates to (DeepDiff with ignore_order, exclude_paths,       *)
(*          verbose_level=2), and DriftAnalyzer.detect_drift /             *)
(*          analyze_resource_drift on top of it.                           *)
(* Part II  DriftAnalyzer.analyze_snapshot_drift over two snapshots.       *)
(* Part III the detection flows: DriftDetector.detect_drift, the scheduled *)
(*          detect_drift task, compare_with_previous and run_compare.      *)
(***************************************************************************)
EXTENDS Integers, Sequences, FiniteSets, TLC

(***************************************************************************)
(* Bounds of the model.                                                    *)
(***************************************************************************)
\* numbers that occur in configurations are 1..MaxNum
MaxNum == 2
\* longest sequence value inside a configuration
MaxSeqLen == 2

(***************************************************************************)
(* Values: the JSON-like data the analyzer receives (dict, list, str,      *)
(* number, None).  A string is kept as the list of its '/'-separated       *)
(* segments, so that str.split('/') is the field v itself.                 *)
(***************************************************************************)
Null == [t |-> "null", v |-> <<>>]
Num(n) == [t |-> "num", v |-> n]
Str(segs) == [t |-> "str", v |-> segs]
Map(f) == [t |-> "map", v |-> f]
List(s) == [t |-> "seq", v |-> s]
\* a Python set (Dict[str, Any] admits it; JSON does not produce it)
PySet(S) == [t |-> "set", v |-> S]

EmptyMap == Map(<<>>)
\* the dict {k: x}
Map1(k, x) == Map([i \in {k} |-> x])
\* the dict {k1: x1, k2: x2}
Map2(k1, x1, k2, x2) == Map([i \in {k1, k2} |-> IF i = k1 THEN x1 ELSE x2])
\* the dict d with d[k] = x added
With(d, k, x) == Map([i \in (DOMAIN d.v) \cup {k} |-> IF i = k THEN x ELSE d.v[i]])

Keys(d) == DOMAIN d.v
Range(s) == {s[i] : i \in DOMAIN s}

(***************************************************************************)
(* DeepDiff paths.  A path is the token sequence of the path string        *)
(* DeepDiff prints: root, then ['key'] per dict key and [i] per list index.*)
(***************************************************************************)
Root == <<"root">>
KeyPath(path, k) == path \o <<"['", k, "']">>
IndexPath(path, i) == path \o <<"[", ToString(i), "]">>

\* ignored_paths without the metadata entry
ignored_paths_without_metadata ==
    { KeyPath(Root, "timestamp"), KeyPath(Root, "id") }

\* DriftAnalyzer.ignored_paths (lines 47-51)
ignored_paths ==
    { KeyPath(Root, "timestamp"), KeyPath(Root, "id"), KeyPath(Root, "metadata") }

(***************************************************************************)
(* DeepHash under ignore_order=True: a list hashes as the set of the       *)
(* hashes of its items (order and repetition do not count).                *)
(***************************************************************************)
RECURSIVE DeepHash(_)
DeepHash(x) ==
    CASE x.t = "map" -> [t |-> "map", v |-> [k \in Keys(x) |-> DeepHash(x.v[k])]]
      [] x.t = "seq" -> [t |-> "seq", v |-> {DeepHash(x.v[i]) : i \in DOMAIN x.v}]
      [] OTHER -> x

\* index (1-based) of the first item of list value l whose hash is h
FirstIndex(l, h) ==
    CHOOSE i \in DOMAIN l.v :
        /\ DeepHash(l.v[i]) = h
        /\ \A j \in DOMAIN l.v : DeepHash(l.v[j]) = h => i <= j

\* one entry of the DeepDiff result: report type, path, and the two values
Entry(kind, path, old, new) ==
    [kind |-> kind, path |-> path, old |-> old, new |-> new]

(***************************************************************************)
(* DeepDiff(t1, t2, ignore_order=True, exclude_paths=excl, verbose_level=2)*)
(* as the set of its report entries.  `close` is the set of pairs {h1, h2} *)
(* of item hashes the library's distance heuristic                         *)
(* (cutoff_distance_for_pairs) pairs up when both are unmatched.           *)
(***************************************************************************)
\* item hashes of list l1 with no equal item at the same index of l2
\* (the comparison ignore_order=False makes)
UnmatchedInPlace(l1, l2) ==
    {DeepHash(l1.v[i]) : i \in {j \in DOMAIN l1.v :
                                   j \notin DOMAIN l2.v \/ DeepHash(l2.v[j]) # DeepHash(l1.v[j])}}

\* ignore_order=True: item hashes of list l1 that are the hash of no item of l2
Unmatched(l1, l2) ==
    {DeepHash(x) : x \in Range(l1.v)} \ {DeepHash(x) : x \in Range(l2.v)}

RECURSIVE Diff(_, _, _, _, _)
Diff(path, t1, t2, excl, close) ==
    IF path \in excl THEN {}
    ELSE IF t1.t # t2.t THEN {Entry("type_changes", path, t1, t2)}
    ELSE IF t1.t = "map" THEN
        LET removed == {k \in Keys(t1) \ Keys(t2) : KeyPath(path, k) \notin excl}
            added   == {k \in Keys(t2) \ Keys(t1) : KeyPath(path, k) \notin excl}
            common  == Keys(t1) \cap Keys(t2)
        IN  {Entry("dictionary_item_removed", KeyPath(path, k), t1.v[k], Null) : k \in removed}
            \cup
            {Entry("dictionary_item_added", KeyPath(path, k), Null, t2.v[k]) : k \in added}
            \cup
            UNION {Diff(KeyPath(path, k), t1.v[k], t2.v[k], excl, close) : k \in common}
    ELSE IF t1.t = "seq" THEN
        LET hashes_removed == Unmatched(t1, t2)
            hashes_added   == Unmatched(t2, t1)
            paired(r, a)   == {r, a} \in close
            lone_removed   == {r \in hashes_removed : \A a \in hashes_added : ~paired(r, a)}
            lone_added     == {a \in hashes_added : \A r \in hashes_removed : ~paired(r, a)}
            pairs          == {p \in hashes_removed \X hashes_added : paired(p[1], p[2])}
        IN  {Entry("iterable_item_removed",
                   IndexPath(path, FirstIndex(t1, r) - 1), t1.v[FirstIndex(t1, r)], Null)
                : r \in lone_removed}
            \cup
            {Entry("iterable_item_added",
                   IndexPath(path, FirstIndex(t2, a) - 1), Null, t2.v[FirstIndex(t2, a)])
                : a \in lone_added}
            \cup
            UNION {Diff(IndexPath(path, FirstIndex(t1, p[1]) - 1),
                        t1.v[FirstIndex(t1, p[1])], t2.v[FirstIndex(t2, p[2])], excl, close)
                    : p \in pairs}
    ELSE IF t1.t = "set" THEN
        {Entry("set_item_removed", IndexPath(path, e), Num(e), Null) : e \in t1.v \ t2.v}
        \cup
        {Entry("set_item_added", IndexPath(path, e), Null, Num(e)) : e \in t2.v \ t1.v}
    ELSE IF t1 = t2 THEN {}
    ELSE {Entry("values_changed", path, t1, t2)}

DeepDiff(t1, t2, excl, close) == Diff(Root, t1, t2, excl, close)


(***************************************************************************)
(* DriftAnalyzer.detect_drift.                                             *)
(* A Python dict result is a record with the field `keys` naming the keys  *)
(* that are present; the other fields hold a default when their key is     *)
(* absent.  `changes` is the set of the entries of the changes list (its   *)
(* order, DeepDiff's report order, is not modelled; the paths of one       *)
(* report type are distinct, so the set's cardinality is the list length). *)
(***************************************************************************)
\* str.replace(old, "") for a two-token old string
RECURSIVE Replace2(_, _, _)
Replace2(p, a, b) ==
    IF p = <<>> THEN <<>>
    ELSE IF Len(p) >= 2 /\ p[1] = a /\ p[2] = b THEN Replace2(SubSeq(p, 3, Len(p)), a, b)
    ELSE <<p[1]>> \o Replace2(Tail(p), a, b)

\* str.replace(old, "") for a one-token old string
Replace1(p, a) == SelectSeq(p, LAMBDA tok : tok # a)

\* path.replace("root['", "").replace("']", "")
property_path(path) == Replace1(Replace2(path, "root", "['"), "']")

\* the report types whose containers are dicts (verbose_level=2); the
\* set_item_* containers are sets and have no .items()
DictReports ==
    {"values_changed", "type_changes", "dictionary_item_added", "dictionary_item_removed",
     "iterable_item_added", "iterable_item_removed"}

\* the change appended for one entry of the diff (lines 102-124)
Change(e) ==
    [property |-> property_path(e.path),
     old_value |-> e.old,
     new_value |-> e.new,
     change_type |-> CASE e.kind = "values_changed" -> "modified"
                       [] e.kind = "dictionary_item_added" -> "added"
                       [] e.kind = "dictionary_item_removed" -> "removed"
                       [] OTHER -> "none"]

Handled == {"values_changed", "dictionary_item_added", "dictionary_item_removed"}

NoResult == [keys |-> {}, has_drift |-> FALSE, changes |-> {}, error |-> ""]

\* detect_drift without the early return of lines 90-94
detect_drift_no_early_return(current_config, previous_config, close) ==
    LET diff == DeepDiff(previous_config, current_config, ignored_paths, close)
    IN  IF \E e \in diff : e.kind \notin DictReports
        THEN [keys |-> {"has_drift", "error"}, has_drift |-> FALSE, changes |-> {},
              error |-> "AttributeError"]
        ELSE [keys |-> {"has_drift", "changes"}, has_drift |-> TRUE,
              changes |-> {Change(e) : e \in {d \in diff : d.kind \in Handled}},
              error |-> ""]

detect_drift(current_config, previous_config, close) ==
    LET diff == DeepDiff(previous_config, current_config, ignored_paths, close)
    IN  IF diff = {}
        THEN [keys |-> {"has_drift", "changes"}, has_drift |-> FALSE, changes |-> {},
              error |-> ""]
        ELSE IF \E e \in diff : e.kind \notin DictReports
        THEN \* changes_dict.items() raises; the except branch (lines 130-135)
             [keys |-> {"has_drift", "error"}, has_drift |-> FALSE, changes |-> {},
              error |-> "AttributeError"]
        ELSE [keys |-> {"has_drift", "changes"}, has_drift |-> TRUE,
              changes |-> {Change(e) : e \in {d \in diff : d.kind \in Handled}},
              error |-> ""]

(***************************************************************************)
(* DriftAnalyzer.analyze_resource_drift.  The timestamp field carries the  *)
(* wall clock and takes part in no comparison; it is left out.             *)
(***************************************************************************)
NoDrift ==
    [keys |-> {}, resource_id |-> Null, resource_type |-> "", has_drift |-> FALSE,
     changes |-> {}, error |-> ""]

analyze_resource_drift(resource_id, current_config, previous_config, close) ==
    LET drift_result == detect_drift(current_config, previous_config, close)
        segs == resource_id.v
    IN  IF Len(segs) < 7
        THEN \* resource_id.split('/')[6] raises IndexError (lines 170-175)
             [NoDrift EXCEPT !.keys = {"resource_id", "error"},
                             !.resource_id = resource_id, !.error = "IndexError"]
        ELSE [keys |-> {"resource_id", "resource_type", "has_drift", "changes", "timestamp"},
              resource_id |-> resource_id,
              resource_type |-> segs[7],
              has_drift |-> drift_result.has_drift,
              changes |-> IF "changes" \in drift_result.keys
                          THEN drift_result.changes ELSE {},
              error |-> ""]

(***************************************************************************)
(* The configurations the analyzer is run on.                              *)
(***************************************************************************)
Numbers == {Num(n) : n \in 1..MaxNum}
Leaf == Numbers \cup {Str(<<"Standard_DS1_v2">>), Null}
Nested == {EmptyMap} \cup {Map1("vmSize", n) : n \in Numbers}
\* items of list values: a number and two dicts that differ in one field
Item(n) == Map2("name", Num(1), "size", Num(n))
Elem == {Num(1), Item(1), Item(2)}
Lists == UNION {{List(s) : s \in [1..n -> Elem]} : n \in 0..MaxSeqLen}

\* dict with the optional keys metadata (ignored) and hardwareProfile
MetadataValues == {Num(1)} \cup {Map1("etag", n) : n \in Numbers}
MapConfigs ==
    LET base == {EmptyMap} \cup {Map1("hardwareProfile", x) : x \in Leaf \cup Nested}
    IN  base \cup {With(b, "metadata", m) : b \in base, m \in MetadataValues}
ListConfigs == {Map1("rules", l) : l \in Lists}
SetConfigs == {Map1("zones", PySet(S)) : S \in SUBSET (1..MaxNum)}
Configs == MapConfigs \cup ListConfigs \cup SetConfigs
\* the configurations of the value model (JSON-like data)
IsValue(c) == c \in MapConfigs \cup ListConfigs

\* the pairs of unmatched items DeepDiff's distance heuristic may pair up
ClosePairs == {{DeepHash(Item(1)), DeepHash(Item(2))}}

LongId ==
    Str(<<"", "subscriptions", "sub", "resourceGroups", "rg", "providers",
          "Microsoft.Compute", "virtualMachines", "vm-1">>)
ShortId == Str(<<"vm-2">>)
ResourceIds == {LongId, ShortId}

(***************************************************************************)
(* Part II.  DriftAnalyzer.analyze_snapshot_drift.                         *)
(* A snapshot is [id, resources], resources a dict from resource type to   *)
(* the list of the resources of that type; dict iteration follows          *)
(* TypeOrder.  drifts is the list the function builds.                     *)
(***************************************************************************)
\* most resources in one resource-type bucket of a snapshot
MaxResources == 2

TypeOrder == <<"storageAccounts", "virtualMachines">>
OtherId ==
    Str(<<"", "subscriptions", "sub", "resourceGroups", "rg", "providers",
          "Microsoft.Compute", "virtualMachines", "vm-3">>)
Resource(rid, n) == Map2("id", rid, "size", Num(n))
ResourceId(r) == r.v["id"]

\* the names bound at module level in drift_analyzer.py (lines 21-27)
drift_analyzer_names ==
    {"Dict", "Any", "List", "Optional", "logging", "datetime", "json", "DeepDiff", "logger"}

\* dict.get(resource_type, {}) on the resources of a snapshot
BucketOf(snapshot, resource_type) ==
    IF resource_type \in DOMAIN snapshot.resources
    THEN snapshot.resources[resource_type] ELSE <<>>

\* next((r for r in previous_resources if r["id"] == resource_id), None):
\* the matching resources, in list order
Matching(resources, resource_id) ==
    SelectSeq(resources, LAMBDA r : ResourceId(r) = resource_id)

SyntheticDrift(resource_type, resource, change_type) ==
    [keys |-> {"resource_id", "resource_type", "has_drift", "changes", "timestamp"},
     resource_id |-> ResourceId(resource),
     resource_type |-> resource_type,
     has_drift |-> TRUE,
     changes |-> {[property |-> <<"resource">>,
                   old_value |-> IF change_type = "added" THEN Null ELSE resource,
                   new_value |-> IF change_type = "added" THEN resource ELSE Null,
                   change_type |-> change_type]},
     error |-> ""]

\* the first loop (lines 212-245) over the resources of one type, from index i;
\* raised is set when drift["has_drift"] raises KeyError on an error result
RECURSIVE CurrentLoop(_, _, _, _, _)
CurrentLoop(resource_type, resources, previous_resources, i, close) ==
    IF i > Len(resources) THEN [raised |-> FALSE, drifts |-> <<>>]
    ELSE
        LET resource == resources[i]
            found == Matching(previous_resources, ResourceId(resource))
            drift == analyze_resource_drift(ResourceId(resource), resource, found[1], close)
            rest == CurrentLoop(resource_type, resources, previous_resources, i + 1, close)
        IN  IF found = <<>>
            THEN [rest EXCEPT !.drifts =
                      <<SyntheticDrift(resource_type, resource, "added")>> \o @]
            ELSE IF "has_drift" \notin drift.keys
            THEN [raised |-> TRUE, drifts |-> <<>>]
            ELSE IF drift.has_drift
            THEN [rest EXCEPT !.drifts = <<drift>> \o @]
            ELSE rest

\* the second loop (lines 247-265) over the resources of one type
RemovedLoop(resource_type, resources, current_resources) ==
    LET gone == SelectSeq(resources,
                    LAMBDA r : Matching(current_resources, ResourceId(r)) = <<>>)
    IN  [j \in 1..Len(gone) |-> SyntheticDrift(resource_type, gone[j], "removed")]

\* both loops over the resource types from position t of TypeOrder
RECURSIVE CurrentTypes(_, _, _, _)
CurrentTypes(current_snapshot, previous_snapshot, t, close) ==
    IF t > Len(TypeOrder) THEN [raised |-> FALSE, drifts |-> <<>>]
    ELSE
        LET resource_type == TypeOrder[t]
            here == IF resource_type \in DOMAIN current_snapshot.resources
                    THEN CurrentLoop(resource_type, current_snapshot.resources[resource_type],
                                     BucketOf(previous_snapshot, resource_type), 1, close)
                    ELSE [raised |-> FALSE, drifts |-> <<>>]
            rest == CurrentTypes(current_snapshot, previous_snapshot, t + 1, close)
        IN  IF here.raised \/ rest.raised
            THEN [raised |-> TRUE, drifts |-> <<>>]
            ELSE [raised |-> FALSE, drifts |-> here.drifts \o rest.drifts]

RECURSIVE RemovedTypes(_, _, _)
RemovedTypes(current_snapshot, previous_snapshot, t) ==
    IF t > Len(TypeOrder) THEN <<>>
    ELSE
        LET resource_type == TypeOrder[t]
            here == IF resource_type \in DOMAIN previous_snapshot.resources
                    THEN RemovedLoop(resource_type, previous_snapshot.resources[resource_type],
                                     BucketOf(current_snapshot, resource_type))
                    ELSE <<>>
        IN  here \o RemovedTypes(current_snapshot, previous_snapshot, t + 1)

NoReport ==
    [keys |-> {}, snapshot_id |-> "", previous_snapshot_id |-> "", has_drift |-> FALSE,
     drifts |-> <<>>, error |-> ""]

ErrorReport(e) == [NoReport EXCEPT !.keys = {"error"}, !.error = e]

\* analyze_snapshot_drift, given the names that are bound where it runs
analyze_snapshot_drift_in(names, current_snapshot, previous_snapshot, close) ==
    LET first == CurrentTypes(current_snapshot, previous_snapshot, 1, close)
        drifts == first.drifts \o RemovedTypes(current_snapshot, previous_snapshot, 1)
    IN  IF first.raised THEN ErrorReport("KeyError")
        ELSE IF "uuid" \notin names
        THEN \* str(uuid.uuid4()) at line 268 raises NameError; lines 275-279
             ErrorReport("NameError")
        ELSE [keys |-> {"id", "timestamp", "snapshot_id", "previous_snapshot_id",
                        "has_drift", "drifts"},
              snapshot_id |-> current_snapshot.id,
              previous_snapshot_id |-> previous_snapshot.id,
              has_drift |-> Len(drifts) > 0,
              drifts |-> drifts,
              error |-> ""]

analyze_snapshot_drift(current_snapshot, previous_snapshot, close) ==
    analyze_snapshot_drift_in(drift_analyzer_names, current_snapshot, previous_snapshot, close)

(***************************************************************************)
(* The snapshots the analyzer is run on: resource ids are unique within a  *)
(* bucket; the same id may occur under two types.  ShortId has fewer than  *)
(* seven '/'-separated segments.                                           *)
(***************************************************************************)
VmIds == {LongId, OtherId, ShortId}
VmResources == {Resource(rid, n) : rid \in VmIds, n \in 1..MaxNum}
VmBuckets ==
    UNION {{b \in [1..n -> VmResources] :
                \A i, j \in 1..n : ResourceId(b[i]) = ResourceId(b[j]) => i = j}
           : n \in 0..MaxResources}
StorageBuckets == {<<>>, <<Resource(LongId, 1)>>}
ResourceMaps ==
    {<<>>}
    \cup {[t \in {"virtualMachines"} |-> b] : b \in VmBuckets}
    \cup {[t \in {"storageAccounts", "virtualMachines"} |->
              IF t = "virtualMachines" THEN b ELSE c] : b \in VmBuckets, c \in StorageBuckets}
Snapshots(sid) == {[id |-> sid, resources |-> r] : r \in ResourceMaps}
EmptySnapshot == [id |-> "", resources |-> <<>>]

(***************************************************************************)
(* Part III.  The detection flows.                                         *)
(* DriftDetector (drift_detector.py) keeps its snapshots and drift reports *)
(* as files named after the second they are written in; a directory is a   *)
(* function from that second to the file's content.                        *)
(***************************************************************************)
\* the wall clock runs over the seconds 1..MaxTime
MaxTime == 2

Put(dir, name, content) ==
    [f \in (DOMAIN dir) \cup {name} |-> IF f = name THEN content ELSE dir[f]]

\* dict.get(key, default) on a dict value
Get(d, k, default) == IF k \in Keys(d) THEN d.v[k] ELSE default

EmptyList == List(<<>>)
NoChanges == [raised |-> FALSE, added |-> <<>>, removed |-> <<>>, modified |-> <<>>]
Raised == [NoChanges EXCEPT !.raised = TRUE]

\* DriftDetector._compare_resources and _compare_rbac_assignments: lists of
\* dicts keyed by "id" (ids are unique within a list)
compare_by_id(current, previous) ==
    LET cur == current.v
        prev == previous.v
    IN  [raised |-> FALSE,
         added |-> SelectSeq(cur, LAMBDA r : Matching(prev, ResourceId(r)) = <<>>),
         removed |-> SelectSeq(prev, LAMBDA r : Matching(cur, ResourceId(r)) = <<>>),
         modified |-> SelectSeq(cur, LAMBDA r :
                          /\ Matching(prev, ResourceId(r)) # <<>>
                          /\ Matching(prev, ResourceId(r))[1] # r)]

\* DriftDetector._compare_dicts; a list argument has no .items() and raises
\* AttributeError.  The three results are the sets of the keys concerned.
compare_dicts(current, previous) ==
    IF current.t # "map" \/ previous.t # "map" THEN Raised
    ELSE [raised |-> FALSE,
          added |-> Keys(current) \ Keys(previous),
          removed |-> Keys(previous) \ Keys(current),
          modified |-> {k \in Keys(current) \cap Keys(previous) : current.v[k] # previous.v[k]}]

\* _compare_security_settings and _compare_monitoring_settings: two named
\* sub-dicts compared with _compare_dicts
compare_settings(current, previous, first, second) ==
    LET a == compare_dicts(Get(current, first, EmptyMap), Get(previous, first, EmptyMap))
        b == compare_dicts(Get(current, second, EmptyMap), Get(previous, second, EmptyMap))
    IN  [raised |-> a.raised \/ b.raised, first |-> a, second |-> b]

\* the drift dict DriftDetector.detect_drift builds (lines 135-155)
detector_drift(current_config, previous_config, now) ==
    [timestamp |-> now,
     resources |-> compare_by_id(Get(current_config, "resources", EmptyList),
                                 Get(previous_config, "resources", EmptyList)),
     security_settings |->
         compare_settings(Get(current_config, "security_settings", EmptyMap),
                          Get(previous_config, "security_settings", EmptyMap),
                          "policies", "assessments"),
     rbac_assignments |-> compare_by_id(Get(current_config, "rbac_assignments", EmptyList),
                                        Get(previous_config, "rbac_assignments", EmptyList)),
     monitoring_settings |->
         compare_settings(Get(current_config, "monitoring_settings", EmptyMap),
                          Get(previous_config, "monitoring_settings", EmptyMap),
                          "diagnostic_settings", "alert_rules")]

\* one of the four comparisons raised
DriftRaised(drift) ==
    drift.security_settings.raised \/ drift.monitoring_settings.raised

\* DriftDetector.get_latest_snapshot: the file with the greatest mtime, or None
HasSnapshot(dir) == DOMAIN dir # {}
Latest(dir) == dir[CHOOSE f \in DOMAIN dir : \A g \in DOMAIN dir : g <= f]

\* the parameters __init__ requires (drift_detector.py line 17, snapshot.py
\* line 15, drift_report.py line 15) and detect_drift requires (line 133)
DriftDetector_init_params == <<"subscription_id", "resource_group">>
SnapshotManager_init_params == <<"data_dir">>
DriftReportManager_init_params == <<"data_dir">>
DriftDetector_detect_drift_params == <<"current_config", "previous_config">>

\* a call binds its positional arguments to the required parameters
CallRaises(params, args) == Len(args) # Len(params)

NoOutcome ==
    [op |-> "", had_baseline |-> FALSE, status |-> "", error |-> "", stored |-> FALSE,
     code |-> 0, upstream_failed |-> FALSE, collect_raised |-> FALSE, saved |-> 0,
     compared |-> FALSE, baseline |-> 0]

\* tasks.detect_drift (lines 71-112): what the task returns, and whether it
\* reaches save_report (line 100, not conditional on has_drift)
task_detect_drift(has_snapshot) ==
    IF \/ CallRaises(DriftDetector_init_params, <<>>)
       \/ CallRaises(SnapshotManager_init_params, <<>>)
       \/ CallRaises(DriftReportManager_init_params, <<>>)
    THEN [status |-> "error", error |-> "TypeError", saves |-> FALSE]
    ELSE IF ~has_snapshot
    THEN [status |-> "error", error |-> "No snapshots available for drift detection",
          saves |-> FALSE]
    ELSE IF CallRaises(DriftDetector_detect_drift_params, <<"latest_snapshot">>)
    THEN [status |-> "error", error |-> "TypeError", saves |-> FALSE]
    ELSE [status |-> "success", error |-> "", saves |-> TRUE]

\* the methods of DriftDetector that are coroutines (async def)
DriftDetector_coroutines ==
    {"collect_configuration", "_collect_resources", "_collect_security_settings",
     "_collect_rbac_assignments", "_collect_monitoring_settings"}

\* `await detector.method(...)` raises TypeError after the call when the
\* method is a plain function
AwaitRaises(method) == method \notin DriftDetector_coroutines

\* the configurations DriftDetector compares: collect_configuration stores the
\* policies as a list (line 78)
Policy(n) == Map1("p", Num(n))
DetectorConfigs ==
    { EmptyMap,
      Map1("resources", List(<<Resource(LongId, 1)>>)),
      Map2("resources", List(<<Resource(LongId, 2)>>),
           "security_settings", Map1("policies", Policy(1))),
      Map2("rbac_assignments", List(<<Resource(OtherId, 1)>>),
           "security_settings", Map1("policies", List(<<Policy(1)>>))) }

\* what a listing call of an Azure client gives: the items, or an exception
Fails == [t |-> "raise", v |-> <<>>]
UpstreamResources ==
    {Fails, EmptyList, List(<<Resource(LongId, 1)>>), List(<<Resource(LongId, 2)>>)}
UpstreamPolicies == {Fails, List(<<Policy(1)>>)}
Upstreams == [resources : UpstreamResources, policies : UpstreamPolicies]

\* DriftDetector._collect_resources (lines 54-70): the except clause logs the
\* error and the list gathered so far is returned
detector_collect_resources(listing) ==
    IF listing = Fails THEN EmptyList ELSE listing

\* DriftDetector._collect_security_settings (lines 72-85): the dict is filled
\* after both listings; the except clause logs and the dict is returned
collect_security_settings(policies) ==
    IF policies = Fails THEN EmptyMap
    ELSE Map2("policies", policies, "assessments", EmptyList)

\* DriftDetector.collect_configuration (lines 37-52).  No helper lets an
\* exception out, so the except clause of line 50 is not entered.
collect_configuration(upstream, time) ==
    [raised |-> FALSE,
     config |->
        Map([k \in {"timestamp", "resources", "security_settings",
                    "rbac_assignments", "monitoring_settings"} |->
                CASE k = "timestamp" -> Num(time)
                  [] k = "resources" -> detector_collect_resources(upstream.resources)
                  [] k = "security_settings" -> collect_security_settings(upstream.policies)
                  [] k = "rbac_assignments" -> EmptyList
                  [] k = "monitoring_settings" -> EmptyMap])]

\* the name of the file get_latest_snapshot reads (greatest mtime)
LatestFile(dir) == CHOOSE f \in DOMAIN dir : \A g \in DOMAIN dir : g <= f

\* the routes of main.py that collect (lines 87, 154) and that read (118, 132)
CollectRoutes == {"/collect", "/api/v1/drift/check"}
LatestRoutes == {"/latest-snapshot", "/latest-drift"}

\* get_latest_snapshot and get_latest_drift (main.py lines 118-144): whatever
\* is raised inside the try block, the HTTPException of lines 126 and 140
\* included, is caught by `except Exception` and answered with status 500
latest_route(awaited, found) ==
    LET raised_in_try == IF ~awaited THEN "TypeError"
                         ELSE IF ~found THEN "HTTPException(404)"
                         ELSE ""
    IN  [code |-> IF raised_in_try = "" THEN 200 ELSE 500, error |-> raised_in_try]

\* the user listings run_snapshot.py saves
UserListings == {Map1("value", List(<<Item(n)>>)) : n \in 1..MaxNum}

(***************************************************************************)
(* Part IV.  Severity and summaries: DriftAnalyzer._assess_change_severity,*)
(* DriftAnalyzer.get_drift_summary and DriftReportManager.get_drift_summary.*)
(* For substring tests a property string is the sequence of the words and  *)
(* punctuation marks it is made of; the words are such that a keyword      *)
(* occurs in a string only as a run of whole words.                        *)
(***************************************************************************)
\* most drifts in a report that is summarised
MaxDrifts == 3

\* the words of one token of a property path
Words(tok) ==
    CASE tok = "vmSize" -> <<"vm", "Size">>
      [] tok = "hardwareProfile" -> <<"hardware", "Profile">>
      [] tok = "securityProfile" -> <<"security", "Profile">>
      [] tok = "diskEncryption" -> <<"disk", "Encryption">>
      [] tok = "network_security" -> <<"network", "_", "security">>
      [] tok = "sku.capacity" -> <<"sku", ".", "capacity">>
      [] OTHER -> <<tok>>

\* the characters of a property string, word by word
RECURSIVE Spell(_)
Spell(property) ==
    IF property = <<>> THEN <<>> ELSE Words(Head(property)) \o Spell(Tail(property))

\* str.lower() on one word
LowerWord(w) ==
    CASE w = "Size" -> "size"
      [] w = "Profile" -> "profile"
      [] w = "Encryption" -> "encryption"
      [] OTHER -> w

\* str.lower()
Lower(s) == [i \in DOMAIN s |-> LowerWord(s[i])]

\* `sub in s` for strings
Contains(s, sub) ==
    \E i \in 1..(Len(s) - Len(sub) + 1) : SubSeq(s, i, i + Len(sub) - 1) = sub

\* lines 357-364
high_severity_props ==
    {<<"security">>, <<"encryption">>, <<"authentication">>, <<"authorization">>,
     <<"firewall">>, <<"network", "_", "security">>}

\* lines 367-373
medium_severity_props ==
    {<<"size">>, <<"capacity">>, <<"performance">>, <<"scaling">>, <<"replication">>}

\* _assess_change_severity with the medium keywords tested first
assess_change_severity_medium_first(change) ==
    LET property_path_lower == Lower(Spell(change.property))
    IN  IF \E prop \in medium_severity_props : Contains(property_path_lower, prop)
        THEN "medium"
        ELSE IF \E prop \in high_severity_props : Contains(property_path_lower, prop)
        THEN "high"
        ELSE "low"

\* DriftAnalyzer._assess_change_severity (lines 337-385)
assess_change_severity(change) ==
    LET property_path_lower == Lower(Spell(change.property))
    IN  IF \E prop \in high_severity_props : Contains(property_path_lower, prop)
        THEN "high"
        ELSE IF \E prop \in medium_severity_props : Contains(property_path_lower, prop)
        THEN "medium"
        ELSE "low"

\* the keys changes are reported at, and the properties detect_drift and
\* analyze_snapshot_drift give to changes at those keys, one or two levels deep
SeverityKeys ==
    {"name", "vmSize", "size", "securityProfile", "diskEncryption", "network_security",
     "sku.capacity", "hardwareProfile"}
Properties ==
    {<<"resource">>}
    \cup {property_path(KeyPath(Root, k)) : k \in SeverityKeys}
    \cup {property_path(KeyPath(KeyPath(Root, k1), k2)) : k1, k2 \in SeverityKeys}
ChangeTypes == {"modified", "added", "removed"}
Changes ==
    {[property |-> p, old_value |-> Null, new_value |-> Num(1), change_type |-> "added"]
        : p \in Properties}
    \cup {[property |-> p, old_value |-> Num(1), new_value |-> Null, change_type |-> "removed"]
        : p \in Properties}
    \cup {[property |-> p, old_value |-> Num(1), new_value |-> Num(2),
           change_type |-> "modified"] : p \in Properties}
NoChange == [property |-> <<>>, old_value |-> Null, new_value |-> Null, change_type |-> ""]

(***************************************************************************)
(* The two summaries.  A summary dict is a record with `keys` naming the   *)
(* keys present ({} is the record with no key); resource_types is a        *)
(* function from resource type to count, change_types a function from the  *)
(* key string, spelled as in Spell, to count.                              *)
(***************************************************************************)
NoSummary ==
    [keys |-> {}, total_drifts |-> 0, resource_types |-> <<>>, change_types |-> <<>>,
     severity |-> [high |-> 0, medium |-> 0, low |-> 0], error |-> ""]

\* counts[k] = 1 whatever counts.get(k, 0) is
IncrementForgetful(counts, k) ==
    [x \in (DOMAIN counts) \cup {k} |-> IF x = k THEN 1 ELSE counts[x]]

\* counts[k] = counts.get(k, 0) + 1
Increment(counts, k) ==
    [x \in (DOMAIN counts) \cup {k} |->
        IF x = k THEN (IF k \in DOMAIN counts THEN counts[k] ELSE 0) + 1 ELSE counts[x]]

\* the inner loop of DriftAnalyzer.get_drift_summary (lines 324-330)
RECURSIVE CountChanges(_, _)
CountChanges(summary, changes) ==
    IF changes = {} THEN summary
    ELSE LET c == CHOOSE x \in changes : TRUE
             change_type == <<c.change_type>>
             sev == assess_change_severity(c)
         IN  CountChanges([summary EXCEPT !.change_types = Increment(@, change_type),
                                          !.severity[sev] = @ + 1],
                          changes \ {c})

\* the outer loop (lines 318-330), from drift i
RECURSIVE CountDrifts(_, _, _)
CountDrifts(summary, drifts, i) ==
    IF i > Len(drifts) THEN summary
    ELSE LET drift == drifts[i]
             counted == [summary EXCEPT !.resource_types = Increment(@, drift.resource_type)]
         IN  CountDrifts(CountChanges(counted, drift.changes), drifts, i + 1)

\* DriftAnalyzer.get_drift_summary (lines 281-335); a missing key raises
\* KeyError and the except branch returns {}
get_drift_summary(drift_report) ==
    IF "drifts" \notin drift_report.keys THEN NoSummary
    ELSE IF \E i \in DOMAIN drift_report.drifts :
               ~({"resource_type", "changes"} \subseteq drift_report.drifts[i].keys)
    THEN NoSummary
    ELSE CountDrifts([NoSummary EXCEPT
                         !.keys = {"total_drifts", "resource_types", "change_types",
                                   "severity"},
                         !.total_drifts = Len(drift_report.drifts)],
                     drift_report.drifts, 1)

\* s.split('.')[-1]
LastSegment(s) ==
    IF \E i \in DOMAIN s : s[i] = "."
    THEN LET last == CHOOSE i \in DOMAIN s :
                         s[i] = "." /\ \A j \in DOMAIN s : s[j] = "." => j <= i
         IN  SubSeq(s, last + 1, Len(s))
    ELSE s

\* the inner loop of DriftReportManager.get_drift_summary (lines 185-187)
RECURSIVE ManagerCountChanges(_, _)
ManagerCountChanges(summary, changes) ==
    IF changes = {} THEN summary
    ELSE LET c == CHOOSE x \in changes : TRUE
             change_type == LastSegment(Spell(c.property))
         IN  ManagerCountChanges([summary EXCEPT !.change_types = Increment(@, change_type)],
                                 changes \ {c})

\* the outer loop (lines 179-187), from drift i
RECURSIVE ManagerCountDrifts(_, _, _)
ManagerCountDrifts(summary, drifts, i) ==
    IF i > Len(drifts) THEN summary
    ELSE LET drift == drifts[i]
             counted == [summary EXCEPT !.resource_types = Increment(@, drift.resource_type)]
         IN  ManagerCountDrifts(ManagerCountChanges(counted, drift.changes), drifts, i + 1)

\* DriftReportManager.get_drift_summary (lines 160-189) on the directory
\* drift_dir (report id -> report as json.load gives it back); there is no
\* except branch, a missing key raises KeyError to the caller
manager_get_drift_summary(drift_dir, id) ==
    IF id \notin DOMAIN drift_dir THEN NoSummary
    ELSE LET loaded == drift_dir[id]
         IN  IF "drifts" \notin loaded.keys THEN [NoSummary EXCEPT !.error = "KeyError"]
             ELSE ManagerCountDrifts([NoSummary EXCEPT
                                         !.keys = {"total_drifts", "resource_types",
                                                   "change_types"},
                                         !.total_drifts = Len(loaded.drifts)],
                                     loaded.drifts, 1)

\* the drifts of the reports that are summarised: what analyze_snapshot_drift
\* puts in its drifts list
SummaryDrifts ==
    { SyntheticDrift("virtualMachines", Resource(LongId, 1), "added"),
      SyntheticDrift("storageAccounts", Resource(LongId, 1), "removed"),
      analyze_resource_drift(LongId, Map1("vmSize", Num(2)), Map1("vmSize", Num(1)), {}),
      analyze_resource_drift(LongId,
                             Map2("vmSize", Num(2), "name", Num(1)),
                             Map2("securityProfile", Num(1), "vmSize", Num(1)), {}),
      analyze_resource_drift(OtherId, Map1("sku.capacity", Num(2)),
                             Map1("sku.capacity", Num(1)), {}) }

ReportOf(drifts) ==
    [keys |-> {"id", "timestamp", "snapshot_id", "previous_snapshot_id", "has_drift",
               "drifts"},
     snapshot_id |-> "snapshot-2",
     previous_snapshot_id |-> "snapshot-1",
     has_drift |-> Len(drifts) > 0,
     drifts |-> drifts,
     error |-> ""]

SummaryReports ==
    {ErrorReport("NameError")}
    \cup UNION {{ReportOf(ds) : ds \in [1..n -> SummaryDrifts]} : n \in 0..MaxDrifts}

\* the ids a summary is asked for; the report is stored under the first
ReportIds == {"report-1", "report-2"}

(***************************************************************************)
(* Part V.  The stores: SnapshotManager (snapshot.py) keeps one file       *)
(* <uuid>.json per snapshot in snapshots_dir; DriftReportManager           *)
(* (drift_report.py) is the same code over drift_dir.  A file is           *)
(* [data, ctime] with ctime the time of its last write; between open(...,  *)
(* 'w') and json.dump the file exists and is empty.  The entity written is *)
(* [id, timestamp].                                                        *)
(***************************************************************************)
\* most save_snapshot calls in a run
MaxSaves == 2
\* greatest `days` argument of cleanup_old_snapshots
MaxDays == 1
\* greatest `limit` argument of list_snapshots
MaxLimit == 2
\* days * 24 * 60 * 60 (line 142)
DaySeconds == 24 * 60 * 60

Uuids == 1..MaxSaves
\* content of a file that was opened for writing and not written yet
Partial == [id |-> 0, timestamp |-> 0]
NoEntity == [id |-> 0, timestamp |-> 0]
File(data, ctime) == [data |-> data, ctime |-> ctime]
\* os.remove that leaves the file in place
RemoveNothing(dir, names) == dir
\* os.remove of each file of names
Remove(dir, names) == [f \in (DOMAIN dir) \ names |-> dir[f]]

\* what a store operation gave its caller: value None is found = FALSE
NoStoreResult ==
    [op |-> "", id |-> 0, found |-> FALSE, data |-> NoEntity, flag |-> FALSE,
     count |-> 0, items |-> <<>>, error |-> "", limit |-> 0]

\* SnapshotManager.load_snapshot without its except branch
load_snapshot_uncaught(dir, id) ==
    IF id \notin DOMAIN dir
    THEN [NoStoreResult EXCEPT !.op = "load", !.id = id, !.error = "FileNotFoundError"]
    ELSE IF dir[id].data = Partial
    THEN [NoStoreResult EXCEPT !.op = "load", !.id = id, !.error = "JSONDecodeError"]
    ELSE [NoStoreResult EXCEPT !.op = "load", !.id = id, !.found = TRUE,
                               !.data = dir[id].data]

\* SnapshotManager.load_snapshot (lines 45-60): FileNotFoundError gives None,
\* json.load of an empty file raises JSONDecodeError
load_snapshot(dir, id) ==
    IF id \notin DOMAIN dir
    THEN [NoStoreResult EXCEPT !.op = "load", !.id = id]
    ELSE IF dir[id].data = Partial
    THEN [NoStoreResult EXCEPT !.op = "load", !.id = id, !.error = "JSONDecodeError"]
    ELSE [NoStoreResult EXCEPT !.op = "load", !.id = id, !.found = TRUE,
                               !.data = dir[id].data]

\* the files max(..., key=getctime) can return (lines 69-74): max keeps the
\* first greatest item in os.listdir order, which is arbitrary
LatestFiles(dir) == {f \in DOMAIN dir : \A g \in DOMAIN dir : dir[g].ctime <= dir[f].ctime}

\* SnapshotManager.get_latest_snapshot (lines 62-78) when max returns
\* latest_file; an exception of load_snapshot gives None
get_latest_snapshot(dir, latest_file) ==
    IF DOMAIN dir = {} THEN [NoStoreResult EXCEPT !.op = "get_latest"]
    ELSE LET loaded == load_snapshot(dir, latest_file)
         IN  IF loaded.error # "" THEN [NoStoreResult EXCEPT !.op = "get_latest"]
             ELSE [loaded EXCEPT !.op = "get_latest", !.id = 0]

\* the orders in which os.listdir can give the files of dir
Listings(dir) ==
    {l \in [1..Cardinality(DOMAIN dir) -> DOMAIN dir] :
        \A i, j \in DOMAIN l : l[i] = l[j] => i = j}

\* list.sort(key=timestamp, reverse=True) is stable: files of equal timestamp
\* keep their order in listing
RECURSIVE SortDescending(_, _)
SortDescending(dir, listing) ==
    IF listing = <<>> THEN <<>>
    ELSE LET first == CHOOSE i \in DOMAIN listing :
                          /\ \A j \in DOMAIN listing :
                                dir[listing[j]].data.timestamp <= dir[listing[i]].data.timestamp
                          /\ \A j \in 1..(i - 1) :
                                dir[listing[j]].data.timestamp < dir[listing[i]].data.timestamp
         IN  <<listing[first]>>
             \o SortDescending(dir, SubSeq(listing, 1, first - 1)
                                     \o SubSeq(listing, first + 1, Len(listing)))

\* reports[:limit] for limit >= 0
Take(seq, limit) == SubSeq(seq, 1, IF limit < Len(seq) THEN limit ELSE Len(seq))

\* SnapshotManager.list_snapshots (lines 80-109) when os.listdir gives listing;
\* json.load of an empty file raises and the except branch returns []
list_snapshots(dir, listing, limit) ==
    IF \E f \in DOMAIN dir : dir[f].data = Partial
    THEN [NoStoreResult EXCEPT !.op = "list", !.limit = limit]
    ELSE LET sorted == SortDescending(dir, listing)
         IN  [NoStoreResult EXCEPT
                 !.op = "list",
                 !.limit = limit,
                 !.items = Take([i \in DOMAIN sorted |-> dir[sorted[i]].data], limit)]

(***************************************************************************)
(* Part VI.  ResourceCollector (resource_collector.py): collect_resources  *)
(* collects three resource types in turn, each through                     *)
(* _safe_resource_collection, which tenacity's @retry wraps.               *)
(***************************************************************************)
\* @retry(stop=stop_after_attempt(3), ...) at line 52
stop_after_attempt == 3

\* the resource types in the order collect_resources collects them
ResourceTypes == <<"virtualMachines", "networkInterfaces", "storageAccounts">>

\* what one call of collection_func does: it returns items, or raises
\* HttpResponseError with a status code, or raises another exception
Returns(items) == [kind |-> "return", status_code |-> 0, items |-> items]
HttpResponseError(status_code) ==
    [kind |-> "HttpResponseError", status_code |-> status_code, items |-> <<>>]
OtherError == [kind |-> "Exception", status_code |-> 0, items |-> <<>>]
Responses ==
    {Returns(<<>>), HttpResponseError(404), HttpResponseError(500), OtherError}
        \cup {Returns(<<n>>) : n \in 1..MaxNum}

\* the body of _safe_resource_collection (lines 67-75) on one call
safe_resource_collection_body(response) ==
    CASE response.kind = "return" -> [raised |-> "", value |-> response.items]
      [] response.kind = "HttpResponseError" /\ response.status_code = 404 ->
             [raised |-> "", value |-> <<>>]
      [] OTHER -> [raised |-> "ResourceCollectionError", value |-> <<>>]

\* @retry is given no reraise=True (line 52): when the stop condition is met
\* tenacity raises RetryError from the exception of the last attempt
retry_reraise == FALSE
retry_error(last_raised) == IF retry_reraise THEN last_raised ELSE "RetryError"

\* _safe_resource_collection under @retry: the outcome of one more call, given
\* what the calls so far have led to
NoSafeResult ==
    [state |-> "", calls |-> 0, value |-> <<>>, error |-> "", responses |-> <<>>]
Running == [NoSafeResult EXCEPT !.state = "running"]
safe_resource_collection(so_far, response) ==
    LET body == safe_resource_collection_body(response)
        calls == so_far.calls + 1
        responses == Append(so_far.responses, response)
    IN  IF body.raised = ""
        THEN [state |-> "returned", calls |-> calls, value |-> body.value,
              error |-> "", responses |-> responses]
        ELSE IF calls >= stop_after_attempt
        THEN [state |-> "raised", calls |-> calls, value |-> <<>>,
              error |-> retry_error(body.raised), responses |-> responses]
        ELSE [so_far EXCEPT !.calls = calls, !.responses = responses]

\* collect_resources before its first statement
NoCollector ==
    [pc |-> "idle", type |-> 0, resources |-> <<>>, collection_status |-> <<>>,
     error |-> ""]

(***************************************************************************)
(* Part VII.  MetricsCollector (monitoring.py): every public method runs   *)
(* under `with self.metrics_lock`, a threading.Lock, and the recording     *)
(* methods call save_metrics inside that block.                            *)
(***************************************************************************)
\* the threads that call one collector
MaxThreads == 2
\* most record_drift calls that raise
MaxRaises == 2
Threads == 1..MaxThreads

RecordOps ==
    {"record_snapshot", "record_drift", "record_api_request",
     "record_collection_error", "update_system_metrics", "reset_metrics"}

\* the keys of drifts_by_severity (lines 55-59) and one that is none
SeverityLevels == {"high", "medium", "low"}
SeverityArguments == SeverityLevels \cup {"critical"}

\* _initialize_metrics (lines 45-83), the counters
initialize_metrics ==
    [total_snapshots |-> 0, total_resources |-> 0, total_drifts |-> 0,
     drifts_by_severity |-> [l \in SeverityLevels |-> 0],
     total_requests |-> 0, errors |-> 0, collection_errors |-> 0,
     memory_usage |-> 0]

NoCall == [op |-> "", count |-> 0, severity |-> "", error |-> FALSE]
MetricsCalls ==
    {[NoCall EXCEPT !.op = "record_snapshot", !.count = n] : n \in 0..MaxNum}
      \cup {[NoCall EXCEPT !.op = "record_drift", !.severity = l] : l \in SeverityArguments}
      \cup {[NoCall EXCEPT !.op = "record_api_request", !.error = e] : e \in BOOLEAN}
      \cup {[NoCall EXCEPT !.op = "update_system_metrics", !.count = n] : n \in 1..MaxNum}
      \cup {[NoCall EXCEPT !.op = o] : o \in {"record_collection_error", "reset_metrics",
                                              "save_metrics"}}

\* the statements of a recording method between taking the lock and calling
\* save_metrics; drifts_by_severity[severity] += 1 raises KeyError for a
\* severity that is no key, after total_drifts has been counted
update_metrics(m, call) ==
    CASE call.op = "record_snapshot" ->
             [raised |-> "",
              metrics |-> [m EXCEPT !.total_snapshots = @ + 1,
                                    !.total_resources = @ + call.count]]
      [] call.op = "record_drift" ->
             IF call.severity \in SeverityLevels
             THEN [raised |-> "",
                   metrics |-> [m EXCEPT !.total_drifts = @ + 1,
                                         !.drifts_by_severity[call.severity] = @ + 1]]
             ELSE [raised |-> "KeyError", metrics |-> [m EXCEPT !.total_drifts = @ + 1]]
      [] call.op = "record_api_request" ->
             [raised |-> "",
              metrics |-> [m EXCEPT !.total_requests = @ + 1,
                                    !.errors = IF call.error THEN @ + 1 ELSE @]]
      [] call.op = "record_collection_error" ->
             [raised |-> "", metrics |-> [m EXCEPT !.collection_errors = @ + 1]]
      [] call.op = "update_system_metrics" ->
             [raised |-> "", metrics |-> [m EXCEPT !.memory_usage = call.count]]
      [] call.op = "reset_metrics" -> [raised |-> "", metrics |-> initialize_metrics]

IdleThread == [pc |-> "idle", call |-> NoCall, result |-> ""]
NoMetricsFile == [exists |-> FALSE, content |-> initialize_metrics]

VARIABLES
    pc,               \* which call of the analyzer has been made
    current_config,   \* argument of detect_drift
    previous_config,  \* argument of detect_drift
    close,            \* the pairing DeepDiff's distance heuristic makes
    drift_result,     \* detect_drift(current_config, previous_config)
    inverse_result,   \* detect_drift(previous_config, current_config)
    resource_drift,   \* analyze_resource_drift(id, current_config, previous_config)
    current_snapshot, \* argument of analyze_snapshot_drift
    previous_snapshot,\* argument of analyze_snapshot_drift
    report,           \* analyze_snapshot_drift(current_snapshot, previous_snapshot)
    bucket,           \* resource type whose loop made the analyze_resource_drift call
    now,              \* the wall clock, in seconds
    snapshots_path,   \* DriftDetector.snapshots_path: second -> configuration
    drift_path,       \* DriftDetector.drift_path: second -> drift report
    users_snapshots,  \* settings.SNAPSHOT_DIR, users_*.json: second -> listing
    outcome,          \* what the last request gave its caller
    change,           \* argument of _assess_change_severity
    severity,         \* _assess_change_severity(change)
    summary,          \* DriftAnalyzer.get_drift_summary(report)
    report_id,        \* argument of DriftReportManager.get_drift_summary
    manager_summary,  \* DriftReportManager.get_drift_summary(report_id)
    snapshots_dir,    \* SnapshotManager.snapshots_dir: uuid -> file
    issued,           \* the uuids uuid4() has returned
    pending,          \* the save_snapshot calls under way
    store_result,     \* what the last store operation gave its caller
    collector,        \* ResourceCollector.collect_resources: its position and locals
    safe_result,      \* the _safe_resource_collection call under way, or the last one
    metrics_lock,     \* MetricsCollector.metrics_lock: 0, or the thread that took it
    thread,           \* each thread's position in a MetricsCollector method
    metrics,          \* MetricsCollector.metrics
    metrics_file      \* metrics.json

diffvars ==
    <<pc, current_config, previous_config, close, drift_result, inverse_result,
      resource_drift>>

diffvars_but_pc ==
    <<current_config, previous_config, close, drift_result, inverse_result, resource_drift>>

snapvars == <<current_snapshot, previous_snapshot, report, bucket>>

storevars == <<snapshots_dir, issued, pending, store_result>>

collectorvars == <<collector, safe_result>>

metricsvars == <<metrics_lock, thread, metrics, metrics_file>>

\* the variables of the resource collector and of the metrics collector
supportvars == <<collectorvars, metricsvars>>

\* no collection has started and no method of the metrics collector is called
SupportIdle ==
    /\ collector = NoCollector
    /\ safe_result = NoSafeResult
    /\ metrics_lock = 0
    /\ thread = [t \in Threads |-> IdleThread]
    /\ metrics = initialize_metrics
    /\ metrics_file = NoMetricsFile

\* the variables of the flows and of the stores
flowvars == <<now, snapshots_path, drift_path, users_snapshots, outcome, storevars>>

detectorvars == <<snapshots_path, drift_path, users_snapshots, outcome>>

\* the store is empty and no operation has run
StoreIdle ==
    /\ snapshots_dir = <<>>
    /\ issued = {}
    /\ pending = {}
    /\ store_result = NoStoreResult

sumvars == <<change, severity, summary, report_id, manager_summary>>

\* no change has been assessed
SumIdle ==
    /\ change = NoChange
    /\ severity = ""
    /\ summary = NoSummary
    /\ report_id = ""
    /\ manager_summary = NoSummary

\* the flows have not run
FlowIdle ==
    /\ now = 1
    /\ snapshots_path = <<>>
    /\ drift_path = <<>>
    /\ users_snapshots = <<>>
    /\ outcome = NoOutcome
    /\ StoreIdle
    /\ SupportIdle

InitDiff ==
    /\ FlowIdle
    /\ SumIdle
    /\ pc = "start"
    /\ current_snapshot = EmptySnapshot
    /\ previous_snapshot = EmptySnapshot
    /\ report = NoReport
    /\ bucket = ""
    /\ current_config \in Configs
    /\ previous_config \in Configs
    /\ close \in SUBSET ClosePairs
    /\ drift_result = NoResult
    /\ inverse_result = NoResult
    /\ resource_drift = NoDrift

DetectDrift ==
    /\ pc = "start"
    /\ drift_result' = detect_drift(current_config, previous_config, close)
    /\ pc' = "detected"
    /\ UNCHANGED <<current_config, previous_config, close, inverse_result, resource_drift, snapvars, flowvars, supportvars, sumvars>>

DetectDriftInverse ==
    /\ pc = "detected"
    /\ inverse_result' = detect_drift(previous_config, current_config, close)
    /\ pc' = "inverted"
    /\ UNCHANGED <<current_config, previous_config, close, drift_result, resource_drift, snapvars, flowvars, supportvars, sumvars>>

AnalyzeResourceDrift ==
    /\ pc = "start"
    /\ \E rid \in ResourceIds :
          resource_drift' = analyze_resource_drift(rid, current_config, previous_config, close)
    /\ pc' = "analyzed"
    /\ UNCHANGED <<current_config, previous_config, close, drift_result, inverse_result, snapvars, flowvars, supportvars, sumvars>>

NextDiff == DetectDrift \/ DetectDriftInverse \/ AnalyzeResourceDrift

vars == <<diffvars, snapvars, flowvars, sumvars, supportvars>>

SpecDiff == InitDiff /\ [][NextDiff]_vars

(***************************************************************************)
(* analyze_snapshot_drift on a pair of snapshots.                          *)
(***************************************************************************)
InitSnap ==
    /\ FlowIdle
    /\ SumIdle
    /\ pc = "start"
    /\ current_config = EmptyMap
    /\ previous_config = EmptyMap
    /\ close = {}
    /\ drift_result = NoResult
    /\ inverse_result = NoResult
    /\ resource_drift = NoDrift
    /\ current_snapshot \in Snapshots("snapshot-2")
    /\ previous_snapshot \in Snapshots("snapshot-1")
    /\ report = NoReport
    /\ bucket = ""

AnalyzeSnapshotDrift ==
    /\ pc = "start"
    /\ report' = analyze_snapshot_drift(current_snapshot, previous_snapshot, close)
    /\ pc' = "reported"
    /\ UNCHANGED <<diffvars_but_pc, current_snapshot, previous_snapshot, bucket, flowvars, supportvars, sumvars>>

\* one pass of the first loop for a resource found in both snapshots: the
\* call of analyze_resource_drift at lines 223-227
AnalyzeResourceOfBucket ==
    /\ pc = "start"
    /\ \E resource_type \in DOMAIN current_snapshot.resources :
          \E i \in DOMAIN current_snapshot.resources[resource_type] :
              LET resource == current_snapshot.resources[resource_type][i]
                  found == Matching(BucketOf(previous_snapshot, resource_type),
                                    ResourceId(resource))
              IN  /\ found # <<>>
                  /\ resource_drift' = analyze_resource_drift(ResourceId(resource), resource,
                                                              found[1], close)
                  /\ bucket' = resource_type
    /\ pc' = "analyzed"
    /\ UNCHANGED <<current_config, previous_config, close, drift_result, inverse_result,
                   current_snapshot, previous_snapshot, report, flowvars, supportvars, sumvars>>

NextSnap == AnalyzeSnapshotDrift \/ AnalyzeResourceOfBucket

SpecSnap == InitSnap /\ [][NextSnap]_vars

(***************************************************************************)
(* The detection flows over the stored snapshots and reports.              *)
(***************************************************************************)
InitFlow ==
    /\ FlowIdle
    /\ SumIdle
    /\ pc = "flow"
    /\ current_config = EmptyMap
    /\ previous_config = EmptyMap
    /\ close = {}
    /\ drift_result = NoResult
    /\ inverse_result = NoResult
    /\ resource_drift = NoDrift
    /\ current_snapshot = EmptySnapshot
    /\ previous_snapshot = EmptySnapshot
    /\ report = NoReport
    /\ bucket = ""

analyzervars == <<diffvars, snapvars, sumvars>>

Tick ==
    /\ now < MaxTime
    /\ now' = now + 1
    /\ UNCHANGED <<analyzervars, supportvars, storevars, snapshots_path, drift_path, users_snapshots, outcome>>

\* DriftDetector.save_snapshot (lines 122-131)
SaveSnapshot ==
    \E config \in DetectorConfigs :
        /\ snapshots_path' = Put(snapshots_path, now, config)
        /\ outcome' = [NoOutcome EXCEPT !.op = "save_snapshot", !.stored = TRUE]
        /\ UNCHANGED <<analyzervars, supportvars, storevars, now, drift_path, users_snapshots>>

\* DriftDetector.detect_drift (lines 133-159)
DetectorDetectDrift ==
    \E current \in DetectorConfigs, previous \in DetectorConfigs :
        LET drift == detector_drift(current, previous, now)
        IN  /\ drift_path' = IF DriftRaised(drift) THEN drift_path
                             ELSE Put(drift_path, now, drift)
            /\ outcome' = [NoOutcome EXCEPT
                              !.op = "detect_drift",
                              !.had_baseline = TRUE,
                              !.status = IF DriftRaised(drift) THEN "raised" ELSE "returned",
                              !.error = IF DriftRaised(drift) THEN "AttributeError" ELSE "",
                              !.stored = ~DriftRaised(drift)]
            /\ UNCHANGED <<analyzervars, supportvars, storevars, now, snapshots_path, users_snapshots>>

\* the scheduled task tasks.detect_drift (lines 71-112)
DetectDriftTask ==
    LET result == task_detect_drift(HasSnapshot(snapshots_path))
    IN  /\ drift_path' = IF result.saves
                             THEN Put(drift_path, now,
                                      detector_drift(Latest(snapshots_path), EmptyMap, now))
                             ELSE drift_path
        /\ outcome' = [NoOutcome EXCEPT
                          !.op = "task",
                          !.had_baseline = HasSnapshot(snapshots_path),
                          !.status = result.status,
                          !.error = result.error,
                          !.stored = result.saves]
        /\ UNCHANGED <<analyzervars, supportvars, storevars, now, snapshots_path, users_snapshots>>

\* main.compare_with_previous (lines 108-116): get_latest_snapshot is called
\* and its result awaited; the except branch logs the error
CompareWithPrevious ==
    \E current \in DetectorConfigs :
        LET awaited == ~AwaitRaises("get_latest_snapshot")
            compares == awaited /\ HasSnapshot(snapshots_path)
                          /\ ~AwaitRaises("detect_drift")
            drift == detector_drift(current, Latest(snapshots_path), now)
            saves == compares /\ ~DriftRaised(drift)
        IN  /\ drift_path' = IF saves THEN Put(drift_path, now, drift) ELSE drift_path
            /\ outcome' = [NoOutcome EXCEPT
                              !.op = "compare_with_previous",
                              !.had_baseline = HasSnapshot(snapshots_path),
                              !.status = IF ~awaited THEN "error"
                                         ELSE IF ~HasSnapshot(snapshots_path) THEN "none"
                                         ELSE IF saves THEN "info" ELSE "error",
                              !.error = IF ~awaited THEN "TypeError" ELSE "",
                              !.stored = saves]
            /\ UNCHANGED <<analyzervars, supportvars, storevars, now, snapshots_path, users_snapshots>>

\* run_snapshot.py with collector.save_snapshot (label users)
SaveUsersSnapshot ==
    \E data \in UserListings :
        /\ users_snapshots' = Put(users_snapshots, now, data)
        /\ outcome' = [NoOutcome EXCEPT !.op = "run_snapshot", !.stored = TRUE]
        /\ UNCHANGED <<analyzervars, supportvars, storevars, now, snapshots_path, drift_path>>

\* run_compare.py (lines 9-18) with compare_snapshots and send_teams_alert
RunCompare ==
    LET files == DOMAIN users_snapshots
        latest == CHOOSE f \in files : \A g \in files : g <= f
        previous == CHOOSE f \in files \ {latest} : \A g \in files \ {latest} : g <= f
        diff == DeepDiff(users_snapshots[previous], users_snapshots[latest], {}, close)
    IN  /\ outcome' = [NoOutcome EXCEPT
                          !.op = "run_compare",
                          !.had_baseline = Cardinality(files) >= 2,
                          !.status = IF Cardinality(files) < 2
                                     THEN "Not enough snapshots to compare."
                                     ELSE IF diff = {} THEN "No drift detected."
                                     ELSE "alert posted"]
        /\ UNCHANGED <<analyzervars, supportvars, storevars, now, snapshots_path, drift_path, users_snapshots>>

\* DriftDetector, the scheduled task and the API's background comparison
NextFlow ==
    \/ Tick
    \/ SaveSnapshot
    \/ DetectorDetectDrift
    \/ DetectDriftTask
    \/ CompareWithPrevious

SpecFlow == InitFlow /\ [][NextFlow]_vars

\* the command-line scripts run_snapshot.py and run_compare.py
NextCli ==
    \/ Tick
    \/ SaveUsersSnapshot
    \/ RunCompare

SpecCli == InitFlow /\ [][NextCli]_vars

\* POST /collect and POST /api/v1/drift/check (main.py lines 87-106 and
\* 154-173) with the background task compare_with_previous (lines 108-116).
\* save_snapshot is a plain function: it runs, and awaiting the str it returns
\* raises TypeError, which the except clause answers with status 500; the
\* background task is added only after the await.
CollectRequest(route) ==
    \E upstream \in Upstreams :
        LET collected == collect_configuration(upstream, now)
            saves == ~collected.raised
            awaited == saves /\ ~AwaitRaises("save_snapshot")
            after == IF saves THEN Put(snapshots_path, now, collected.config)
                     ELSE snapshots_path
            compares == /\ awaited
                        /\ ~AwaitRaises("get_latest_snapshot")
                        /\ HasSnapshot(after)
                        /\ ~AwaitRaises("detect_drift")
            drift == detector_drift(collected.config, after[LatestFile(after)], now)
            reports == compares /\ ~DriftRaised(drift)
        IN  /\ snapshots_path' = after
            /\ drift_path' = IF reports THEN Put(drift_path, now, drift) ELSE drift_path
            /\ outcome' = [NoOutcome EXCEPT
                              !.op = route,
                              !.had_baseline = HasSnapshot(snapshots_path),
                              !.code = IF awaited THEN 200 ELSE 500,
                              !.error = IF awaited THEN "" ELSE "TypeError",
                              !.stored = saves \/ reports,
                              !.upstream_failed = (Fails \in {upstream.resources,
                                                              upstream.policies}),
                              !.collect_raised = collected.raised,
                              !.saved = IF saves THEN now ELSE 0,
                              !.compared = compares,
                              !.baseline = IF compares THEN LatestFile(after) ELSE 0]
            /\ UNCHANGED <<analyzervars, supportvars, storevars, now, users_snapshots>>

CollectConfiguration == CollectRequest("/collect")
CheckDrift == CollectRequest("/api/v1/drift/check")

\* GET /latest-snapshot (main.py lines 118-130)
LatestSnapshotRoute ==
    LET answer == latest_route(~AwaitRaises("get_latest_snapshot"),
                               HasSnapshot(snapshots_path))
    IN  /\ outcome' = [NoOutcome EXCEPT
                          !.op = "/latest-snapshot",
                          !.had_baseline = HasSnapshot(snapshots_path),
                          !.code = answer.code,
                          !.error = answer.error]
        /\ UNCHANGED <<analyzervars, supportvars, storevars, now, snapshots_path, drift_path,
                       users_snapshots>>

\* GET /latest-drift (main.py lines 132-144)
LatestDriftRoute ==
    LET answer == latest_route(~AwaitRaises("get_latest_drift_report"),
                               HasSnapshot(drift_path))
    IN  /\ outcome' = [NoOutcome EXCEPT
                          !.op = "/latest-drift",
                          !.had_baseline = HasSnapshot(drift_path),
                          !.code = answer.code,
                          !.error = answer.error]
        /\ UNCHANGED <<analyzervars, supportvars, storevars, now, snapshots_path, drift_path,
                       users_snapshots>>

\* the routes of the API, called with a detector
NextApi ==
    \/ Tick
    \/ CollectConfiguration
    \/ CheckDrift
    \/ LatestSnapshotRoute
    \/ LatestDriftRoute
    \/ DetectorDetectDrift

SpecApi == InitFlow /\ [][NextApi]_vars

(***************************************************************************)
(* _assess_change_severity on one change.                                  *)
(***************************************************************************)
InitSeverity ==
    /\ FlowIdle
    /\ pc = "start"
    /\ current_config = EmptyMap
    /\ previous_config = EmptyMap
    /\ close = {}
    /\ drift_result = NoResult
    /\ inverse_result = NoResult
    /\ resource_drift = NoDrift
    /\ current_snapshot = EmptySnapshot
    /\ previous_snapshot = EmptySnapshot
    /\ report = NoReport
    /\ bucket = ""
    /\ change \in Changes
    /\ severity = ""
    /\ summary = NoSummary
    /\ report_id = ""
    /\ manager_summary = NoSummary

AssessChangeSeverity ==
    /\ pc = "start"
    /\ severity' = assess_change_severity(change)
    /\ pc' = "assessed"
    /\ UNCHANGED <<diffvars_but_pc, snapvars, flowvars, supportvars, change, summary, report_id,
                   manager_summary>>

NextSeverity == AssessChangeSeverity

SpecSeverity == InitSeverity /\ [][NextSeverity]_vars

(***************************************************************************)
(* The two summaries of one report.                                        *)
(***************************************************************************)
InitSum ==
    /\ FlowIdle
    /\ SumIdle
    /\ pc = "start"
    /\ current_config = EmptyMap
    /\ previous_config = EmptyMap
    /\ close = {}
    /\ drift_result = NoResult
    /\ inverse_result = NoResult
    /\ resource_drift = NoDrift
    /\ current_snapshot = EmptySnapshot
    /\ previous_snapshot = EmptySnapshot
    /\ report \in SummaryReports
    /\ bucket = ""

GetDriftSummary ==
    /\ pc = "start"
    /\ summary' = get_drift_summary(report)
    /\ pc' = "summarised"
    /\ UNCHANGED <<diffvars_but_pc, snapvars, flowvars, supportvars, change, severity, report_id,
                   manager_summary>>

ManagerGetDriftSummary ==
    /\ pc = "summarised"
    /\ \E id \in ReportIds :
          /\ report_id' = id
          /\ manager_summary' =
                 manager_get_drift_summary([r \in {"report-1"} |-> report], id)
    /\ pc' = "both"
    /\ UNCHANGED <<diffvars_but_pc, snapvars, flowvars, supportvars, change, severity, summary>>

NextSum == GetDriftSummary \/ ManagerGetDriftSummary

SpecSum == InitSum /\ [][NextSum]_vars

(***************************************************************************)
(* The operations of SnapshotManager, by any number of callers at a time.  *)
(***************************************************************************)
\* a day goes by
DayPasses ==
    /\ now <= MaxTime
    /\ now' = now + DaySeconds
    /\ UNCHANGED <<analyzervars, supportvars, detectorvars, storevars>>

\* save_snapshot, lines 34-36: the id and the timestamp are assigned
SaveStart ==
    /\ Cardinality(issued) < MaxSaves
    /\ \E u \in Uuids \ issued :
          /\ issued' = issued \cup {u}
          /\ pending' = pending \cup {[id |-> u, timestamp |-> now, step |-> "named"]}
    /\ store_result' = [NoStoreResult EXCEPT !.op = "save"]
    /\ UNCHANGED <<analyzervars, supportvars, detectorvars, now, snapshots_dir>>

\* save_snapshot, line 39: open(file_path, 'w') creates the empty file
SaveOpen ==
    \E p \in pending :
        /\ p.step = "named"
        /\ snapshots_dir' = Put(snapshots_dir, p.id, File(Partial, now))
        /\ pending' = (pending \ {p}) \cup {[p EXCEPT !.step = "open"]}
        /\ store_result' = [NoStoreResult EXCEPT !.op = "save"]
        /\ UNCHANGED <<analyzervars, supportvars, detectorvars, now, issued>>

\* save_snapshot, lines 40-43: json.dump writes the entity and the id is
\* returned; a file removed since it was opened stays removed
SaveDump ==
    \E p \in pending :
        /\ p.step = "open"
        /\ snapshots_dir' =
               IF p.id \in DOMAIN snapshots_dir
               THEN Put(snapshots_dir, p.id,
                        File([id |-> p.id, timestamp |-> p.timestamp], now))
               ELSE snapshots_dir
        /\ pending' = pending \ {p}
        /\ store_result' = [NoStoreResult EXCEPT !.op = "save", !.id = p.id]
        /\ UNCHANGED <<analyzervars, supportvars, detectorvars, now, issued>>

\* save_snapshot, line 40: json.dump raises TypeError on a value that is not
\* JSON serializable; the file stays as it is and the caller gets the error
SaveDumpRaises ==
    \E p \in pending :
        /\ p.step = "open"
        /\ pending' = pending \ {p}
        /\ store_result' = [NoStoreResult EXCEPT !.op = "save", !.error = "TypeError"]
        /\ UNCHANGED <<analyzervars, supportvars, detectorvars, now, snapshots_dir, issued>>

\* list_snapshots (lines 80-109)
ListSnapshots ==
    \E limit \in 0..MaxLimit, listing \in Listings(snapshots_dir) :
        /\ store_result' = list_snapshots(snapshots_dir, listing, limit)
        /\ UNCHANGED <<analyzervars, supportvars, detectorvars, now, snapshots_dir, issued, pending>>

\* load_snapshot (lines 45-60)
LoadSnapshot ==
    \E id \in Uuids :
        /\ store_result' = load_snapshot(snapshots_dir, id)
        /\ UNCHANGED <<analyzervars, supportvars, detectorvars, now, snapshots_dir, issued, pending>>

\* get_latest_snapshot (lines 62-78)
GetLatestSnapshot ==
    /\ \/ /\ DOMAIN snapshots_dir = {}
          /\ store_result' = get_latest_snapshot(snapshots_dir, 0)
       \/ \E latest_file \in LatestFiles(snapshots_dir) :
             store_result' = get_latest_snapshot(snapshots_dir, latest_file)
    /\ UNCHANGED <<analyzervars, supportvars, detectorvars, now, snapshots_dir, issued, pending>>

\* delete_snapshot (lines 111-129)
DeleteSnapshot ==
    \E id \in Uuids :
        /\ snapshots_dir' = Remove(snapshots_dir, {id})
        /\ store_result' = [NoStoreResult EXCEPT !.op = "delete", !.id = id,
                                                  !.flag = id \in DOMAIN snapshots_dir]
        /\ UNCHANGED <<analyzervars, supportvars, detectorvars, now, issued, pending>>

\* cleanup_old_snapshots (lines 131-157)
CleanupOld(days) ==
    LET cutoff == now - days * DaySeconds
        old == {f \in DOMAIN snapshots_dir : snapshots_dir[f].ctime < cutoff}
    IN  /\ snapshots_dir' = Remove(snapshots_dir, old)
        /\ store_result' = [NoStoreResult EXCEPT !.op = "cleanup",
                                                  !.count = Cardinality(old)]
        /\ UNCHANGED <<analyzervars, supportvars, detectorvars, now, issued, pending>>

CleanupOldSnapshots == \E days \in 0..MaxDays : CleanupOld(days)

NextStore ==
    \/ Tick
    \/ DayPasses
    \/ SaveStart
    \/ SaveOpen
    \/ SaveDump
    \/ SaveDumpRaises
    \/ ListSnapshots
    \/ LoadSnapshot
    \/ GetLatestSnapshot
    \/ DeleteSnapshot
    \/ CleanupOldSnapshots

SpecStore == InitFlow /\ [][NextStore]_vars

(***************************************************************************)
(* ResourceCollector.collect_resources, one call at a time.                *)
(***************************************************************************)
othervars == <<diffvars, snapvars, flowvars, sumvars>>

\* collect_resources, lines 83-94: the three clients are made; an exception
\* there reaches the outer except clause (lines 152-154)
CollectResources ==
    /\ collector.pc # "collecting"
    /\ \E clients_made \in BOOLEAN :
          IF clients_made
          THEN /\ collector' = [NoCollector EXCEPT !.pc = "collecting", !.type = 1]
               /\ safe_result' = Running
          ELSE /\ collector' = [NoCollector EXCEPT !.pc = "raised",
                                                   !.error = "ResourceCollectionError"]
               /\ safe_result' = NoSafeResult
    /\ UNCHANGED <<othervars, metricsvars>>

\* one call of collection_func inside _safe_resource_collection (lines 52-75)
CallCollectionFunc ==
    /\ collector.pc = "collecting"
    /\ safe_result.state = "running"
    /\ \E response \in Responses :
          safe_result' = safe_resource_collection(safe_result, response)
    /\ UNCHANGED <<othervars, metricsvars, collector>>

\* collect_resources after _safe_resource_collection has returned or raised
\* (lines 102-110, 118-126, 134-142), and after the third type lines 144-154:
\* validate_resources may raise
StoreCollected ==
    /\ collector.pc = "collecting"
    /\ safe_result.state \in {"returned", "raised"}
    /\ LET name == ResourceTypes[collector.type]
           returned == safe_result.state = "returned"
           stored == [collector EXCEPT
                         !.resources = Put(@, name, IF returned THEN safe_result.value
                                                    ELSE <<>>),
                         !.collection_status = Put(@, name, IF returned THEN "success"
                                                            ELSE "error")]
       IN  IF collector.type < Len(ResourceTypes)
           THEN /\ collector' = [stored EXCEPT !.type = @ + 1]
                /\ safe_result' = Running
           ELSE /\ \E valid \in BOOLEAN :
                      collector' = IF valid THEN [stored EXCEPT !.pc = "done"]
                                   ELSE [stored EXCEPT !.pc = "raised",
                                                       !.error = "ResourceCollectionError"]
                /\ safe_result' = safe_result
    /\ UNCHANGED <<othervars, metricsvars>>

NextCollector == CollectResources \/ CallCollectionFunc \/ StoreCollected

SpecCollector == InitFlow /\ [][NextCollector]_vars

(***************************************************************************)
(* MetricsCollector called by several threads.  A thread is idle, or at    *)
(* the `with self.metrics_lock` of a recording method ("lock"), inside it  *)
(* ("body"), at the `with self.metrics_lock` of save_metrics ("save_lock"),*)
(* or inside that ("save_dump").                                           *)
(***************************************************************************)
\* a thread calls a method of the collector
CallMetrics(t) ==
    /\ thread[t].pc = "idle"
    /\ \E call \in MetricsCalls :
          /\ (call.op = "record_drift" /\ call.severity \notin SeverityLevels) =>
                 metrics.total_drifts < MaxRaises
          /\ thread' = [thread EXCEPT ![t] =
                           [pc |-> IF call.op = "save_metrics" THEN "save_lock" ELSE "lock",
                            call |-> call, result |-> ""]]
    /\ UNCHANGED <<othervars, collectorvars, metrics_lock, metrics, metrics_file>>

\* `with self.metrics_lock:` of a recording method (lines 101, 123, 146, 164,
\* 176, 230): Lock.acquire blocks until the lock is free
AcquireLock(t) ==
    /\ thread[t].pc = "lock"
    /\ metrics_lock = 0
    /\ metrics_lock' = t
    /\ thread' = [thread EXCEPT ![t].pc = "body"]
    /\ UNCHANGED <<othervars, collectorvars, metrics, metrics_file>>

\* the statements up to the call of save_metrics; an exception leaves the
\* with block, which releases the lock
UpdateMetrics(t) ==
    /\ thread[t].pc = "body"
    /\ LET updated == update_metrics(metrics, thread[t].call)
       IN  /\ metrics' = updated.metrics
           /\ IF updated.raised = ""
              THEN /\ thread' = [thread EXCEPT ![t].pc = "save_lock"]
                   /\ UNCHANGED metrics_lock
              ELSE /\ thread' = [thread EXCEPT ![t].pc = "idle",
                                               ![t].result = updated.raised]
                   /\ metrics_lock' = 0
    /\ UNCHANGED <<othervars, collectorvars, metrics_file>>

\* save_metrics, line 88: `with self.metrics_lock:`, whoever the caller is
SaveAcquire(t) ==
    /\ thread[t].pc = "save_lock"
    /\ metrics_lock = 0
    /\ metrics_lock' = t
    /\ thread' = [thread EXCEPT ![t].pc = "save_dump"]
    /\ UNCHANGED <<othervars, collectorvars, metrics, metrics_file>>

\* save_metrics, lines 89-90, and its return: the file is written and the
\* lock released; a recording method that called it then leaves its own with
\* block, and releasing the lock that is not locked raises RuntimeError
SaveDumpMetrics(t) ==
    /\ thread[t].pc = "save_dump"
    /\ metrics_file' = [exists |-> TRUE, content |-> metrics]
    /\ metrics_lock' = 0
    /\ thread' = [thread EXCEPT
                     ![t].pc = "idle",
                     ![t].result = IF thread[t].call.op = "save_metrics" THEN "returned"
                                   ELSE "RuntimeError"]
    /\ UNCHANGED <<othervars, collectorvars, metrics>>

\* what a thread does once it is inside a method
ThreadStep(t) ==
    AcquireLock(t) \/ UpdateMetrics(t) \/ SaveAcquire(t) \/ SaveDumpMetrics(t)

NextMetrics == \E t \in Threads : CallMetrics(t) \/ ThreadStep(t)

SpecMetrics == InitFlow /\ [][NextMetrics]_vars

\* the scheduler runs every thread that can run, and a thread waiting for a
\* lock that is free again and again gets it
SpecMetricsLive ==
    /\ InitFlow
    /\ [][NextMetrics]_vars
    /\ \A t \in Threads :
          /\ WF_vars(UpdateMetrics(t) \/ SaveDumpMetrics(t))
          /\ SF_vars(AcquireLock(t))
          /\ SF_vars(SaveAcquire(t))

(***************************************************************************)
(* Properties of detect_drift and analyze_resource_drift (SpecDiff).       *)
(***************************************************************************)
Detected == pc \in {"detected", "inverted"}
NonEmptyList(c) == "rules" \in Keys(c) /\ Len(c.v["rules"].v) > 0
IsPrefix(p, q) == Len(p) <= Len(q) /\ SubSeq(q, 1, Len(p)) = p
\* the property paths of the ignored entries timestamp, id and metadata
IgnoredProperties == {<<"timestamp">>, <<"id">>, <<"metadata">>}
\* the configuration without its ignored top-level keys
StripIgnored(c) ==
    [k \in Keys(c) \ {"timestamp", "id", "metadata"} |-> c.v[k]]

\* C1: for every configuration A, detect_drift(A, A) returns has_drift = false
\* and an empty changes list.
C1_SelfDiffNoDrift ==
    (Detected /\ current_config = previous_config) =>
        /\ drift_result.keys = {"has_drift", "changes"}
        /\ drift_result.has_drift = FALSE
        /\ drift_result.changes = {}

\* C1 witness: a configuration with a non-empty list was diffed against itself.
C1_Witness ==
    /\ Detected
    /\ current_config = previous_config
    /\ NonEmptyList(current_config)

\* the inverse of a change: values swapped, added exchanged with removed
InverseChange(c) ==
    [property |-> c.property,
     old_value |-> c.new_value,
     new_value |-> c.old_value,
     change_type |-> CASE c.change_type = "added" -> "removed"
                       [] c.change_type = "removed" -> "added"
                       [] OTHER -> c.change_type]

C3_HasDriftIffChanges ==
    (Detected /\ "changes" \in drift_result.keys) =>
        (drift_result.has_drift <=> drift_result.changes # {})

\* C4: no change returned by detect_drift has a property path equal to, or
\* nested under, an ignored path, and configurations that differ only at or
\* beneath ignored paths produce no drift.
C4_IgnoredPathsNeverReported ==
    Detected =>
        /\ \A c \in drift_result.changes :
              \A ip \in IgnoredProperties : ~IsPrefix(ip, c.property)
        /\ StripIgnored(current_config) = StripIgnored(previous_config)
              => drift_result.has_drift = FALSE /\ drift_result.changes = {}

\* C4 witness: the two configurations differ beneath the ignored key metadata
\* and nowhere else, and detect_drift has run on them.
C4_Witness ==
    /\ Detected
    /\ "metadata" \in Keys(current_config) \cap Keys(previous_config)
    /\ current_config.v["metadata"].t = "map"
    /\ previous_config.v["metadata"].t = "map"
    /\ current_config.v["metadata"] # previous_config.v["metadata"]
    /\ StripIgnored(current_config) = StripIgnored(previous_config)
    /\ "hardwareProfile" \in Keys(current_config)

\* the comparison of the two configurations fails: both hold a set under the
\* same key and the sets differ
ComparisonFails ==
    /\ "zones" \in Keys(current_config) \cap Keys(previous_config)
    /\ current_config.v["zones"] # previous_config.v["zones"]

\* C5: detect_drift and analyze_resource_drift never turn a failure of the
\* comparison into a result that reads as "no drift" (has_drift = false).
C5_FailureNeverReadsNoDrift ==
    /\ (Detected /\ ComparisonFails) =>
          ~("has_drift" \in drift_result.keys /\ drift_result.has_drift = FALSE)
    /\ (pc = "analyzed" /\ ComparisonFails) =>
          ~("has_drift" \in resource_drift.keys /\ resource_drift.has_drift = FALSE)

\* number of occurrences of x in sequence s
Count(s, x) == Cardinality({i \in DOMAIN s : s[i] = x})
\* sequence b is a permutation of sequence a
Permuted(a, b) ==
    /\ Len(a) = Len(b)
    /\ \A x \in Range(a) \cup Range(b) : Count(a, x) = Count(b, x)
\* the two configurations hold a list under "rules" and the one list is a
\* permutation of the other
OnlyPermuted ==
    /\ "rules" \in Keys(current_config) \cap Keys(previous_config)
    /\ Permuted(previous_config.v["rules"].v, current_config.v["rules"].v)

\* C11: if the current configuration is obtained from the previous one only by
\* permuting the elements of a sequence, detect_drift returns has_drift = false
\* and no changes.
C11_PermutationNoDrift ==
    (Detected /\ OnlyPermuted) =>
        /\ drift_result.keys = {"has_drift", "changes"}
        /\ drift_result.has_drift = FALSE
        /\ drift_result.changes = {}

\* C11 witness: detect_drift has run on two configurations whose lists differ
\* as sequences and are permutations of each other.
C11_Witness ==
    /\ Detected
    /\ OnlyPermuted
    /\ previous_config # current_config

\* both configurations hold a list under "rules"
BothLists == "rules" \in Keys(current_config) \cap Keys(previous_config)
\* the elements of the list of configuration c
Elements(c) == Range(c.v["rules"].v)

\* C12: when two sequences at the same path differ in their elements, an
\* element present only in the previous sequence appears in changes as removed
\* and an element present only in the current sequence appears as added.
C12_UnmatchedElementsReported ==
    (Detected /\ BothLists) =>
        /\ \A x \in Elements(previous_config) \ Elements(current_config) :
              \E c \in drift_result.changes : c.change_type = "removed" /\ c.old_value = x
        /\ \A x \in Elements(current_config) \ Elements(previous_config) :
              \E c \in drift_result.changes : c.change_type = "added" /\ c.new_value = x

\* the value at hardwareProfile -> vmSize of configuration c
VmSize(c) == c.v["hardwareProfile"].v["vmSize"]
HasVmSize(c) ==
    /\ "hardwareProfile" \in Keys(c)
    /\ c.v["hardwareProfile"].t = "map"
    /\ "vmSize" \in Keys(c.v["hardwareProfile"])
\* the two configurations differ in the scalar hardwareProfile -> vmSize only
OnlyVmSizeDiffers ==
    /\ HasVmSize(current_config) /\ HasVmSize(previous_config)
    /\ VmSize(current_config) # VmSize(previous_config)
    /\ Keys(current_config) = Keys(previous_config)
    /\ \A k \in Keys(current_config) \ {"hardwareProfile"} :
          current_config.v[k] = previous_config.v[k]
\* the dot-separated key path "hardwareProfile.vmSize"
DottedVmSize == <<"hardwareProfile", ".", "vmSize">>

\* C14: when the two configurations differ only in the nested scalar
\* hardwareProfile -> vmSize, detect_drift returns exactly one change, of type
\* modified, whose property is the dot-separated key path
\* "hardwareProfile.vmSize", with the previous scalar as old_value and the
\* current scalar as new_value.
C14_NestedScalarDottedPath ==
    (Detected /\ OnlyVmSizeDiffers) =>
        drift_result.changes =
            {[property |-> DottedVmSize,
              old_value |-> VmSize(previous_config),
              new_value |-> VmSize(current_config),
              change_type |-> "modified"]}

(***************************************************************************)
(* Properties of analyze_snapshot_drift (SpecSnap).                        *)
(***************************************************************************)
Types == Range(TypeOrder)
\* the drifts of the report for resource rid of bucket t
DriftsFor(t, rid) ==
    SelectSeq(report.drifts, LAMBDA d : d.resource_id = rid /\ d.resource_type = t)
\* resource r is in bucket t of snapshot s
InBucket(s, t, rid) == \E i \in DOMAIN BucketOf(s, t) : ResourceId(BucketOf(s, t)[i]) = rid
ResourceOf(s, t, rid) ==
    BucketOf(s, t)[CHOOSE i \in DOMAIN BucketOf(s, t) : ResourceId(BucketOf(s, t)[i]) = rid]

\* C6: for every resource present in current.resources[t] and absent from
\* previous.resources[t], the report contains exactly one ResourceDrift for it,
\* with exactly one change, of type added, whose new_value is the entire
\* resource and whose old_value is absent.
C6_AddedResourceReported ==
    pc = "reported" =>
        \A t \in Types, rid \in VmIds :
            (InBucket(current_snapshot, t, rid) /\ ~InBucket(previous_snapshot, t, rid)) =>
                /\ "drifts" \in report.keys
                /\ Len(DriftsFor(t, rid)) = 1
                /\ DriftsFor(t, rid)[1].changes =
                      {[property |-> <<"resource">>, old_value |-> Null,
                        new_value |-> ResourceOf(current_snapshot, t, rid),
                        change_type |-> "added"]}

\* C7: for every resource present in previous.resources[t] and absent from
\* current.resources[t] (also when t is missing from current), the report
\* contains exactly one ResourceDrift for it, with exactly one change, of type
\* removed, whose old_value is the resource.
C7_RemovedResourceReported ==
    pc = "reported" =>
        \A t \in Types, rid \in VmIds :
            (InBucket(previous_snapshot, t, rid) /\ ~InBucket(current_snapshot, t, rid)) =>
                /\ "drifts" \in report.keys
                /\ Len(DriftsFor(t, rid)) = 1
                /\ DriftsFor(t, rid)[1].changes =
                      {[property |-> <<"resource">>,
                        old_value |-> ResourceOf(previous_snapshot, t, rid),
                        new_value |-> Null,
                        change_type |-> "removed"]}

\* C8: for two snapshots with identical resources, analyze_snapshot_drift
\* returns a report with has_drift = false and drifts = [], not an error result.
C8_IdenticalSnapshotsNoDrift ==
    (pc = "reported" /\ current_snapshot.resources = previous_snapshot.resources) =>
        /\ "error" \notin report.keys
        /\ {"has_drift", "drifts"} \subseteq report.keys
        /\ report.has_drift = FALSE
        /\ report.drifts = <<>>

\* C13: for a resource present in both snapshots under resource-type bucket t,
\* the ResourceDrift analyze_resource_drift produces carries resource_type = t,
\* however many '/'-separated segments the resource id has.
C13_ResourceTypeIsBucket ==
    (pc = "analyzed" /\ bucket # "") =>
        /\ "resource_type" \in resource_drift.keys
        /\ resource_drift.resource_type = bucket

(***************************************************************************)
(* Properties of the detection flows (SpecFlow).                           *)
(***************************************************************************)
\* the comparison that produced the drift report found at least one change
FoundDrift(drift) ==
    \/ \E part \in {drift.resources, drift.rbac_assignments} :
          part.added # <<>> \/ part.removed # <<>> \/ part.modified # <<>>
    \/ \E part \in {drift.security_settings.first, drift.security_settings.second,
                     drift.monitoring_settings.first, drift.monitoring_settings.second} :
          part.added # {} \/ part.removed # {} \/ part.modified # {}

\* C9: a drift report is persisted only when the comparison found at least one
\* drift; a comparison that finds no difference stores no report.
C9_ReportOnlyWhenDrift ==
    \A f \in DOMAIN drift_path : FoundDrift(drift_path[f])

ComparisonRequests == {"task", "compare_with_previous", "run_compare"}

\* C10: when no previous snapshot exists, a comparison request stores nothing
\* and gives its caller an outcome that is neither a failure nor an outcome of
\* a comparison that ran.
C10_NoBaselineIsDistinct ==
    (outcome.op \in ComparisonRequests /\ ~outcome.had_baseline) =>
        /\ ~outcome.stored
        /\ outcome.status \notin {"error", "success", "info", "No drift detected.",
                                  "alert posted"}
(***************************************************************************)
(* Properties of _assess_change_severity (SpecSeverity).                   *)
(***************************************************************************)
\* the lower-cased property path of the assessed change
AssessedPath == Lower(Spell(change.property))
HasHighKeyword == \E kw \in high_severity_props : Contains(AssessedPath, kw)
HasMediumKeyword == \E kw \in medium_severity_props : Contains(AssessedPath, kw)

\* C15: the severity is decided by the lower-cased property path in strict
\* High, Medium, Low priority: high if the path contains a high-severity
\* keyword (even when it also contains a medium keyword), otherwise medium if
\* it contains a medium-severity keyword, otherwise low; every change gets
\* exactly one of the three tiers.
C15_SeverityPriority ==
    pc = "assessed" =>
        /\ severity \in {"high", "medium", "low"}
        /\ HasHighKeyword => severity = "high"
        /\ (~HasHighKeyword /\ HasMediumKeyword) => severity = "medium"
        /\ (~HasHighKeyword /\ ~HasMediumKeyword) => severity = "low"

\* C15 witness: a change whose path holds a high keyword and, in capitals, a
\* medium keyword has been assessed.
C15_Witness ==
    /\ pc = "assessed"
    /\ HasHighKeyword
    /\ HasMediumKeyword
    /\ Contains(Spell(change.property), <<"Size">>)

(***************************************************************************)
(* Properties of the summaries (SpecSum).                                  *)
(***************************************************************************)
\* sum of the values of a dict of counts
RECURSIVE SumOf(_)
SumOf(counts) ==
    IF DOMAIN counts = {} THEN 0
    ELSE LET k == CHOOSE x \in DOMAIN counts : TRUE
         IN  counts[k] + SumOf([x \in (DOMAIN counts) \ {k} |-> counts[x]])
\* number of changes of the drifts from index i whose change type is in types
RECURSIVE ChangesFrom(_, _, _)
ChangesFrom(drifts, i, types) ==
    IF i > Len(drifts) THEN 0
    ELSE Cardinality({c \in drifts[i].changes : c.change_type \in types})
         + ChangesFrom(drifts, i + 1, types)
TotalChanges(r) == ChangesFrom(r.drifts, 1, ChangeTypes)
CountOf(counts, k) == IF k \in DOMAIN counts THEN counts[k] ELSE 0
Summarised == pc \in {"summarised", "both"} /\ "drifts" \in report.keys

\* C16: for every drift report, the sum of the by-severity counts and the sum
\* of the by-change-type counts of its summary both equal the total number of
\* changes over all drifts of the report.
C16_SummaryTotalsAgree ==
    Summarised =>
        /\ {"severity", "change_types"} \subseteq summary.keys
        /\ SumOf(summary.severity) = TotalChanges(report)
        /\ SumOf(summary.change_types) = TotalChanges(report)

\* C16 witness: a report of several drifts whose changes repeat a change type
\* and fall in more than one severity tier has been summarised.
C16_Witness ==
    /\ Summarised
    /\ Len(report.drifts) >= 2
    /\ TotalChanges(report) >= 4
    /\ summary.severity["high"] > 0
    /\ summary.severity["medium"] > 0
    /\ \E k \in DOMAIN summary.change_types : summary.change_types[k] >= 2

\* the counts the claim prescribes for summary s of the report
CountsAsClaimed(s) ==
    /\ {"total_drifts", "resource_types", "change_types"} \subseteq s.keys
    /\ s.total_drifts = Len(report.drifts)
    /\ \A ct \in ChangeTypes :
          CountOf(s.change_types, <<ct>>) =
              ChangesFrom(report.drifts, 1, {ct})
    /\ SumOf(s.change_types) = TotalChanges(report)
    /\ \A rt \in {"virtualMachines", "storageAccounts", "Microsoft.Compute"} :
          CountOf(s.resource_types, rt) =
              Cardinality({i \in DOMAIN report.drifts : report.drifts[i].resource_type = rt})

\* C17: both summarizers count each change under its change_type, count each
\* drift once under its resource_type and set total_drifts to the number of
\* drifts of the report, and they agree on these counts for the same report.
C17_SummarizersAgree ==
    (pc = "both" /\ "drifts" \in report.keys /\ report_id = "report-1") =>
        /\ CountsAsClaimed(summary)
        /\ CountsAsClaimed(manager_summary)
        /\ summary.total_drifts = manager_summary.total_drifts
        /\ summary.resource_types = manager_summary.resource_types
        /\ summary.change_types = manager_summary.change_types

(***************************************************************************)
(* Properties of the stores (SpecFlow, SpecStore).                         *)
(***************************************************************************)
\* C18: every save assigns an id distinct from the ids of all entities saved
\* before and never overwrites a previously stored entity, also when two saves
\* are issued within the same second: each save adds one entity to the store.
C18_SaveNeverOverwrites ==
    [][SaveSnapshot =>
          /\ DOMAIN snapshots_path' # DOMAIN snapshots_path
          /\ \A f \in DOMAIN snapshots_path : snapshots_path'[f] = snapshots_path[f]]_vars

\* the entities stored: the data of the files that are written
Stored == {snapshots_dir[f].data : f \in {g \in DOMAIN snapshots_dir :
                                             snapshots_dir[g].data # Partial}}
\* no save is under way
AllWritten == pending = {} /\ \A f \in DOMAIN snapshots_dir : snapshots_dir[f].data # Partial

\* C19: after any sequence of save, delete and cleanup operations (also saves
\* whose file writes complete in another order than their timestamps were
\* assigned), get_latest returns the stored entity with the maximum timestamp.
C19_LatestHasMaxTimestamp ==
    (store_result.op = "get_latest" /\ AllWritten /\ Stored # {}) =>
        /\ store_result.found
        /\ store_result.data \in Stored
        /\ \A e \in Stored : e.timestamp <= store_result.data.timestamp

\* C20: on an empty store get_latest returns None, and load of an id that is
\* not stored returns None; neither raises an error.
C20_AbsenceIsNotAnError ==
    /\ (store_result.op = "get_latest" /\ DOMAIN snapshots_dir = {}) =>
          ~store_result.found /\ store_result.error = ""
    /\ (store_result.op = "load" /\ store_result.id \notin DOMAIN snapshots_dir) =>
          ~store_result.found /\ store_result.error = ""

\* C20 witness: load was asked for an id that is not stored while another
\* entity is, after the stored one had been deleted.
C20_Witness ==
    /\ store_result.op = "load"
    /\ store_result.id \in issued
    /\ store_result.id \notin DOMAIN snapshots_dir
    /\ Stored # {}

\* file f of the store cannot be parsed
Corrupt(f) == snapshots_dir[f].data = Partial
\* the last operation had to read a file that cannot be parsed, with no
\* save under way
ReadCorruptFile ==
    /\ pending = {}
    /\ \/ /\ store_result.op = "get_latest"
          /\ DOMAIN snapshots_dir # {}
          /\ \A f \in LatestFiles(snapshots_dir) : Corrupt(f)
       \/ /\ store_result.op = "list"
          /\ \E f \in DOMAIN snapshots_dir : Corrupt(f)
       \/ /\ store_result.op = "load"
          /\ store_result.id \in DOMAIN snapshots_dir
          /\ Corrupt(store_result.id)

\* C21: a persistence failure during a store operation (here a file that
\* cannot be parsed) is surfaced to the caller as an error; it is never
\* reported as absence or as an empty list.
C21_StorageFailureSurfaces ==
    ReadCorruptFile => store_result.error # ""

\* the files holding an entity whose timestamp is more than `days` days old
OlderThan(days) ==
    {f \in DOMAIN snapshots_dir :
        /\ ~Corrupt(f)
        /\ now - snapshots_dir[f].data.timestamp > days * DaySeconds}

\* C22: cleanup(days) deletes exactly the stored entities whose timestamp is
\* more than `days` days old, leaves every other entity untouched (one exactly
\* `days` old is retained) and returns the number deleted.
C22_CleanupByTimestamp ==
    [][\A days \in 0..MaxDays :
          (CleanupOld(days) /\ \A f \in DOMAIN snapshots_dir : ~Corrupt(f)) =>
              /\ DOMAIN snapshots_dir' = (DOMAIN snapshots_dir) \ OlderThan(days)
              /\ \A f \in DOMAIN snapshots_dir' : snapshots_dir'[f] = snapshots_dir[f]
              /\ store_result'.count = Cardinality(OlderThan(days))]_vars

\* every file that cannot be parsed is one a save is writing at the moment
OnlyWritesInProgress ==
    \A f \in DOMAIN snapshots_dir :
        Corrupt(f) => \E p \in pending : p.id = f /\ p.step = "open"

\* C23: a get_latest or load that runs while a save is under way observes the
\* store as it was before the save or the fully written new entity: it never
\* fails and never returns absent because of the write in progress while older
\* entities exist.
C23_ReadsDuringSave ==
    (OnlyWritesInProgress /\ Stored # {}) =>
        /\ store_result.op = "get_latest" =>
              store_result.found /\ store_result.data \in Stored
        /\ (store_result.op = "load" /\ store_result.id \in DOMAIN snapshots_dir) =>
              store_result.error = ""

\* C24: when the upstream source fails during collection, the collect
\* operation raises to its caller and the request stores no snapshot and no
\* report; the failure is never stored as a snapshot.
C24_FailedCollectionStoresNothing ==
    (outcome.op \in CollectRoutes /\ outcome.upstream_failed) =>
        /\ outcome.collect_raised
        /\ ~outcome.stored
        /\ outcome.saved = 0

\* C25: in the collect and drift-check requests the collected configuration
\* is compared with the snapshot that was the latest before the request saved
\* its own; the baseline is never the snapshot the request itself saved.
C25_BaselineIsPriorLatest ==
    (outcome.op \in CollectRoutes /\ outcome.had_baseline) =>
        /\ outcome.compared
        /\ outcome.baseline # outcome.saved

\* C28: GET /latest-snapshot and GET /latest-drift answer 404 when nothing is
\* stored, and answer 500 only when something other than that 404 was raised
\* in the retrieval.
C28_AbsentIs404 ==
    outcome.op \in LatestRoutes =>
        /\ ~outcome.had_baseline => outcome.code = 404
        /\ outcome.code = 500 => outcome.error \notin {"", "HTTPException(404)"}

\* C26: list(limit) returns at most `limit` stored entities, ordered by
\* timestamp descending, and they are the `limit` most recent entities of the
\* store.
C26_ListMostRecent ==
    store_result.op = "list" =>
        LET items == store_result.items
            most == IF store_result.limit < Cardinality(Stored)
                    THEN store_result.limit ELSE Cardinality(Stored)
        IN  /\ Len(items) = most
            /\ \A i \in DOMAIN items : items[i] \in Stored
            /\ \A i, j \in DOMAIN items :
                  i < j => items[i].timestamp >= items[j].timestamp
            /\ \A e \in Stored \ Range(items) :
                  \A i \in DOMAIN items : e.timestamp <= items[i].timestamp

\* C27: delete(id) returns true exactly when a file of that id was stored;
\* afterwards load(id) returns absent and every other stored file is unchanged
\* and still there; delete of an unknown id returns false and changes nothing.
C27_DeleteFrame ==
    [][DeleteSnapshot =>
          LET id == store_result'.id
          IN  /\ store_result'.flag = (id \in DOMAIN snapshots_dir)
              /\ ~load_snapshot(snapshots_dir', id).found
              /\ load_snapshot(snapshots_dir', id).error = ""
              /\ \A other \in (DOMAIN snapshots_dir) \ {id} :
                    /\ other \in DOMAIN snapshots_dir'
                    /\ snapshots_dir'[other] = snapshots_dir[other]
              /\ id \notin DOMAIN snapshots_dir =>
                    snapshots_dir' = snapshots_dir]_vars

\* a stored entity has been deleted and another one is still stored
C27_Witness ==
    /\ store_result.op = "delete"
    /\ store_result.flag
    /\ store_result.id \notin DOMAIN snapshots_dir
    /\ Stored # {}

\* the last call of collection_func of the _safe_resource_collection under way
LastResponse == safe_result.responses[Len(safe_result.responses)]

\* C29: _safe_resource_collection calls the collection function at most 3
\* times; a 404 response yields an empty list, without error and without a
\* further attempt; when every attempt fails the error that reaches the caller
\* is a ResourceCollectionError.
C29_SafeCollection ==
    /\ safe_result.calls <= 3
    /\ Len(safe_result.responses) = safe_result.calls
    /\ (safe_result.calls > 0 /\ LastResponse = HttpResponseError(404)) =>
          /\ safe_result.state = "returned"
          /\ safe_result.value = <<>>
          /\ safe_result.error = ""
    /\ safe_result.state = "raised" => safe_result.error = "ResourceCollectionError"

\* C30: every call of record_snapshot, record_drift, record_api_request,
\* record_collection_error, update_system_metrics and reset_metrics
\* terminates (the thread that made it is idle again), so that later and
\* concurrent calls can proceed.
C30_RecordCallsTerminate ==
    \A t \in Threads :
        (thread[t].call.op \in RecordOps /\ thread[t].pc # "idle") ~> (thread[t].pc = "idle")
====
